---- MODULE Spec2Model ----
(***************************************************************************)
(* Robustness evaluation pipeline of quant-harbor: the time split, the     *)
(* walk-forward window generator, the freeze run (evaluate every candidate *)
(* on every OOS window, select, evaluate Test) and the hard gates.         *)
(*                                                                         *)
(* A timestamp is a whole number of seconds since 2023-01-01T00:00:00Z; a  *)
(* bar is identified with its timestamp (the index is strictly             *)
(* increasing), so a data frame is the set of its index values.            *)
(***************************************************************************)
EXTENDS Integers, Sequences, FiniteSets, TLC

VARIABLES
    pc,             \* position of the run
    cli,            \* which entry point runs: "freezeA" or "rsi2_freeze_wfa"
    dfs,            \* bars per leg, dfs[1] is leg 0
    split0,         \* result of split_train_val_test_last12m on leg 0
    index_utc,      \* argument of make_quarterly_wfa_windows
    train_months,
    oos_months,
    oos_start,      \* loop variable of make_quarterly_wfa_windows
    windows,        \* list of WfaWindow built so far
    candidates,     \* list of candidate ParameterSets (their ids)
    min_pos_window_rate,
    k,              \* index of the candidate being evaluated
    summaries,      \* per-window summaries of candidate k collected so far
    cand_df,        \* one aggregated row per evaluated candidate
    handed,         \* history: every call of the evaluator so far
    eligible,       \* the sorted eligible rows
    used_fallback,
    best_row,
    test_summary,
    summary,        \* argument of apply_gates: a PerformanceSummary
    cfg,            \* argument of apply_gates: a GateConfig
    gate,           \* value returned by apply_gates
    per_window,     \* argument of aggregate_wfa_oos_gate_results
    agg_cfg,        \* its WfaGateAggregateConfig, or None
    wfa_gate,       \* value it returns
    space,          \* argument of _grid_from_space: list of (key, value list)
    grid_out,       \* list it returns
    base,           \* argument of make_basin_params: a ParameterSet
    basin_cfg,      \* its BasinConfig
    key_vals,       \* the per-key value sets make_basin_params builds
    basin_out,      \* list it returns
    score_in,       \* arguments of scorecard_v1
    dsr_call,       \* arguments of calls of deflated_sharpe_ratio
    dsr_ret,        \* what the calls made so far returned
    score_prev,     \* the previous call of scorecard_v1 and what it returned
    max_dd_intra,   \* --max-dd-intra
    min_trades,     \* --min-trades
    train_summaries, \* the train summaries of the window, one per candidate run
    best,           \* the number of the best candidate so far, 0 for None
    best_score,     \* its score
    rt_passed,      \* the candidates of the window that passed the soft filters
    rt_fallback,    \* the fallback loop ran in this window
    rows,           \* the rows of the windows that are done
    scorecard       \* value it returns

inputVars == <<cli, dfs, train_months, oos_months, candidates, min_pos_window_rate>>
wfaVars   == <<index_utc, oos_start, windows>>
evalVars  == <<k, summaries, cand_df, handed>>
selVars   == <<eligible, used_fallback, best_row, test_summary>>
gateVars  == <<summary, cfg, gate>>
aggVars   == <<per_window, agg_cfg, wfa_gate>>
gridVars  == <<space, grid_out>>
basinVars == <<base, basin_cfg, key_vals, basin_out>>
scoreVars == <<score_in, scorecard>>
dsrVars   == <<dsr_call, dsr_ret>>
pairVars  == <<score_prev>>
retuneVars == <<max_dd_intra, min_trades, train_summaries, best, best_score,
                rt_passed, rt_fallback, rows>>
moreVars  == <<dsrVars, pairVars, retuneVars>>
auxVars   == <<aggVars, gridVars, basinVars, scoreVars, moreVars>>

vars == <<pc, split0, inputVars, wfaVars, evalVars, selVars, gateVars, auxVars>>

(***************************************************************************)
(* Calendar arithmetic: pd.Timestamp, pd.DateOffset(months=n).             *)
(***************************************************************************)
SecondsPerDay == 24 * 60 * 60

\* days from 1970-01-01 to 2023-01-01
EpochDays == 53 * 365 + 13

\* pd.NaT: what min()/max() of an empty index return; it propagates through
\* offsets and every comparison with it is False.
NaT == 0 - 2000000000

DaysFromCivil(y, m, d) ==
    LET yy  == IF m <= 2 THEN y - 1 ELSE y
        era == yy \div 400
        yoe == yy - era * 400
        mp  == IF m > 2 THEN m - 3 ELSE m + 9
        doy == (153 * mp + 2) \div 5 + d - 1
        doe == yoe * 365 + yoe \div 4 - yoe \div 100 + doy
    IN  (era * 146097) + doe - 719468

\* <<year, month, day>> of a day number counted from 1970-01-01
CivilFromDays(z) ==
    LET zz  == z + 719468
        era == zz \div 146097
        doe == zz - era * 146097
        yoe == (doe - doe \div 1460 + doe \div 36524 - doe \div 146096) \div 365
        doy == doe - (365 * yoe + yoe \div 4 - yoe \div 100)
        mp  == (5 * doy + 2) \div 153
        d   == doy - (153 * mp + 2) \div 5 + 1
        m   == IF mp < 10 THEN mp + 3 ELSE mp - 9
        y   == yoe + era * 400
    IN  <<IF m <= 2 THEN y + 1 ELSE y, m, d>>

IsLeap(y) == (y % 4 = 0 /\ y % 100 # 0) \/ y % 400 = 0

DaysInMonth(y, m) ==
    IF m = 2 THEN (IF IsLeap(y) THEN 29 ELSE 28)
    ELSE IF m \in {4, 6, 9, 11} THEN 30 ELSE 31

\* the timestamp y-m-d 00:00:00 plus s seconds
Ts(y, m, d, s) == (DaysFromCivil(y, m, d) - EpochDays) * SecondsPerDay + s

\* t + pd.DateOffset(months=n): the calendar month moves by n, the day of the
\* month is clamped to the length of the target month, the time of day stays.
AddMonths(t, n) ==
    IF t = NaT THEN NaT
    ELSE LET day == t \div SecondsPerDay
             sod == t % SecondsPerDay
             ymd == CivilFromDays(day + EpochDays)
             mi  == ymd[1] * 12 + (ymd[2] - 1) + n
             y2  == mi \div 12
             m2  == (mi % 12) + 1
             dim == DaysInMonth(y2, m2)
             d2  == IF ymd[3] > dim THEN dim ELSE ymd[3]
         IN  Ts(y2, m2, d2, sod)

\* t - pd.Timedelta(seconds=1)
MinusSecond(t) == IF t = NaT THEN NaT ELSE t - 1

\* comparisons of timestamps: any comparison with NaT is False
TsLt(a, b) == a # NaT /\ b # NaT /\ a < b
TsLe(a, b) == a # NaT /\ b # NaT /\ a <= b
TsGt(a, b) == a # NaT /\ b # NaT /\ a > b
TsGe(a, b) == a # NaT /\ b # NaT /\ a >= b

SetMax(S) == CHOOSE x \in S : \A y \in S : y <= x
SetMin(S) == CHOOSE x \in S : \A y \in S : x <= y

\* index.max() / index.min()
IndexMax(idx) == IF idx = {} THEN NaT ELSE SetMax(idx)
IndexMin(idx) == IF idx = {} THEN NaT ELSE SetMin(idx)

(***************************************************************************)
(* split.py: split_train_val_test_last12m                                  *)
(***************************************************************************)
NoSplit == [status |-> "none", train |-> {}, val |-> {}, test |-> {},
            cut_test_start_utc |-> NaT]

\* a cut 365 days before the end instead of 12 calendar months
TestCut_Days365(df) ==
    IF IndexMax(df) = NaT THEN NaT ELSE IndexMax(df) - 365 * SecondsPerDay

\* cut = end - pd.DateOffset(months=12)
TestCut(df) == AddMonths(IndexMax(df), 0 - 12)

\* a pre part that keeps the bar at the cut
RowsLt_Inclusive(df, cut) == {t \in df : TsLe(t, cut)}

\* df[df.index >= cut], df[df.index < cut]
RowsGe(df, cut) == {t \in df : TsGe(t, cut)}
RowsLt(df, cut) == {t \in df : TsLt(t, cut)}

\* an 80/20 division by the position of the bar among the rows
LeSplitPoint_ByRows(t, pre) ==
    5 * Cardinality({u \in pre : u < t}) <= 4 * (Cardinality(pre) - 1)

\* pre.index.min() + (pre.index.max() - pre.index.min()) * 0.8, compared with
\* a bar: t <= split_point. Timestamps are whole seconds, so the product is
\* exact in nanoseconds and the comparison is one of integers.
LeSplitPoint(t, pre) ==
    5 * (t - IndexMin(pre)) <= 4 * (IndexMax(pre) - IndexMin(pre))

SplitTrain(pre) == {t \in pre : LeSplitPoint(t, pre)}
SplitVal(pre)   == {t \in pre : ~LeSplitPoint(t, pre)}

SplitResult(df) ==
    LET cut == TestCut(df)
        pre == RowsLt(df, cut)
    IN  [status |-> "ok",
         train  |-> SplitTrain(pre),
         val    |-> SplitVal(pre),
         test   |-> RowsGe(df, cut),
         cut_test_start_utc |-> cut]

\* a length check on the input instead of on pre
SplitRaises_InputLen(df) == df = {}

\* split.py:36 the ValueError('not enough history before test window')
SplitRaises(df) == RowsLt(df, TestCut(df)) = {}

SplitOk ==
    /\ pc = "split"
    /\ ~SplitRaises(dfs[1])
    /\ split0' = SplitResult(dfs[1])
    /\ pc' = "pre"
    /\ UNCHANGED <<inputVars, wfaVars, evalVars, selVars, gateVars, auxVars>>

SplitFail ==
    /\ pc = "split"
    /\ SplitRaises(dfs[1])
    /\ split0' = [NoSplit EXCEPT !.status = "error"]
    /\ pc' = "error"
    /\ UNCHANGED <<inputVars, wfaVars, evalVars, selVars, gateVars, auxVars>>


(***************************************************************************)
(* walk_forward.py: make_quarterly_wfa_windows                             *)
(***************************************************************************)
\* the list is tracked up to this length; a list the loop keeps extending
\* beyond it is not recorded any further
MaxWindows == 8

\* an advance by 30 days per month instead of calendar months
NextOosStart_Days30(t, months) ==
    IF t = NaT THEN NaT ELSE t + months * 30 * SecondsPerDay

\* oos_start = oos_start + pd.DateOffset(months=oos_months)
NextOosStart(t, months) == AddMonths(t, months)

\* oos_end = oos_start + pd.DateOffset(months=oos_months) - pd.Timedelta(seconds=1)
OosEnd(t, months) == MinusSecond(AddMonths(t, months))

WfaWindow(t, tm, om) ==
    [train_start |-> AddMonths(t, 0 - tm),
     train_end   |-> MinusSecond(t),
     oos_start   |-> t,
     oos_end     |-> OosEnd(t, om)]

\* a stop test on the start of the OOS span instead of its end
WfaStop_OnStart(t, om, idx) == TsGt(t, IndexMax(idx))

\* if oos_end > end: break
WfaStop(t, om, idx) == TsGt(OosEnd(t, om), IndexMax(idx))

\* start = index_utc.min(); oos_start = start + pd.DateOffset(months=train_months)
WfaStart ==
    /\ pc = "make_windows"
    /\ oos_start' = AddMonths(IndexMin(index_utc), train_months)
    /\ windows' = <<>>
    /\ pc' = "wfa_loop"
    /\ UNCHANGED <<split0, inputVars, index_utc, evalVars, selVars, gateVars, auxVars>>

\* one pass of the while loop that appends a window and advances
WfaAppend ==
    /\ pc = "wfa_loop"
    /\ ~WfaStop(oos_start, oos_months, index_utc)
    /\ windows' = IF Len(windows) < MaxWindows
                  THEN Append(windows, WfaWindow(oos_start, train_months, oos_months))
                  ELSE windows
    /\ oos_start' = NextOosStart(oos_start, oos_months)
    /\ UNCHANGED <<pc, split0, inputVars, index_utc, evalVars, selVars, gateVars, auxVars>>

\* the pass that breaks out of the loop; the list is returned
WfaBreak ==
    /\ pc = "wfa_loop"
    /\ WfaStop(oos_start, oos_months, index_utc)
    /\ pc' = "windows_done"
    /\ UNCHANGED <<split0, inputVars, wfaVars, evalVars, selVars, gateVars, auxVars>>

(***************************************************************************)
(* Numbers: a float is an exact fraction num/den with den > 0; None (and   *)
(* the NaN a data frame holds for it) has den = 0.                         *)
(***************************************************************************)
Rat(n, d) == [num |-> n, den |-> d]
None == [num |-> 0, den |-> 0]
IsNone(x) == x.den = 0

RatLt(a, b) == a.num * b.den < b.num * a.den
RatEq(a, b) == a.num * b.den = b.num * a.den
RatGe(a, b) == ~RatLt(a, b)

(***************************************************************************)
(* The evaluator (backtest_runner.run_backtest_df) is external: for a data *)
(* slice and a ParameterSet it returns a summary. Only the fields the      *)
(* freeze run reads are kept; both come from the same start and end value. *)
(***************************************************************************)
Cash == 2000

\* net_pnl = end - start, net_return_pct = (end / start - 1) * 100
Summary(r) == [net_return_pct |-> r, net_pnl |-> r * (Cash \div 100)]

EvaluatorRets == {0 - 1, 1}

(***************************************************************************)
(* cli_freezeA.py / cli_rsi2_freeze_wfa.py: _aggregate_oos                 *)
(***************************************************************************)
RECURSIVE SeqSum(_)
SeqSum(q) == IF q = <<>> THEN 0 ELSE Head(q) + SeqSum(Tail(q))

Rets(summ) == [j \in 1..Len(summ) |-> summ[j].net_return_pct]
Pnls(summ) == [j \in 1..Len(summ) |-> summ[j].net_pnl]

\* the j-th smallest element of a list of numbers
KthSmallest(q, j) ==
    CHOOSE x \in {q[n] : n \in 1..Len(q)} :
        /\ Cardinality({n \in 1..Len(q) : q[n] < x}) < j
        /\ Cardinality({n \in 1..Len(q) : q[n] <= x}) >= j

\* np.median
Median(q) ==
    LET n == Len(q)
    IN  IF n % 2 = 1 THEN Rat(KthSmallest(q, (n + 1) \div 2), 1)
        ELSE Rat(KthSmallest(q, n \div 2) + KthSmallest(q, n \div 2 + 1), 2)

AggregateOos(summ) ==
    LET n == Len(summ)
    IN  [windows |-> n,
         pos_window_rate |->
             IF n = 0 THEN None
             ELSE Rat(Cardinality({j \in 1..n : Pnls(summ)[j] > 0}), n),
         oos_net_return_mean |->
             IF n = 0 THEN None ELSE Rat(SeqSum(Rets(summ)), n),
         oos_net_return_median |->
             IF n = 0 THEN None ELSE Median(Rets(summ)),
         oos_net_return_worst |->
             IF n = 0 THEN None ELSE Rat(KthSmallest(Rets(summ), 1), 1)]

\* rows.append({"cand": k, **p, **agg})
CandRow(cand, params, summ) ==
    [cand |-> cand, params |-> params, agg |-> AggregateOos(summ)]

(***************************************************************************)
(* The freeze run up to the selection: cli_freezeA.main,                   *)
(* cli_rsi2_freeze_wfa.main                                                *)
(***************************************************************************)
NoRow == [cand |-> 0 - 1, params |-> 0, agg |-> AggregateOos(<<>>)]
NoSummary == [net_return_pct |-> 0, net_pnl |-> 0, segment |-> "none"]

\* the windows are built on the whole of leg 0, Test included
PreIndex_WithTest(sp) == sp.train \cup sp.val \cup sp.test

\* pre = pd.concat([split.train, split.val]).sort_index()
PreIndex(sp) == sp.train \cup sp.val

\* df[(df.index >= start) & (df.index <= end)]
SliceDf(df, start, end) == {t \in df : TsGe(t, start) /\ TsLe(t, end)}

\* the bars of all legs between start and end: _slice_all(dfs, start, end)
SliceAll(legs, start, end) ==
    UNION {SliceDf(legs[n], start, end) : n \in 1..Len(legs)}

\* the OOS data handed to the evaluator for window w: freezeA slices every
\* leg of dfs, rsi2_freeze_wfa slices pre
OosData(w) ==
    IF cli = "freezeA" THEN SliceAll(dfs, w.oos_start, w.oos_end)
    ELSE SliceDf(PreIndex(split0), w.oos_start, w.oos_end)

\* the data of the final test evaluation
TestData ==
    IF cli = "freezeA"
    THEN SliceAll(dfs, split0.cut_test_start_utc, IndexMax(dfs[1]))
    ELSE split0.test

BuildPre ==
    /\ pc = "pre"
    /\ index_utc' = PreIndex(split0)
    /\ pc' = "make_windows"
    /\ UNCHANGED <<split0, inputVars, oos_start, windows, evalVars, selVars, gateVars, auxVars>>

\* a run that goes on to the candidates with no window
NoWindows_Continues ==
    /\ pc = "windows_done"
    /\ windows = <<>>
    /\ pc' = "eval"
    /\ k' = 1
    /\ UNCHANGED <<split0, inputVars, wfaVars, summaries, cand_df, handed,
                   selVars, gateVars, auxVars>>

\* if not windows: raise SystemExit
NoWindows ==
    /\ pc = "windows_done"
    /\ windows = <<>>
    /\ pc' = "exit"
    /\ UNCHANGED <<split0, inputVars, wfaVars, evalVars, selVars, gateVars, auxVars>>

StartCandidates ==
    /\ pc = "windows_done"
    /\ cli \in {"freezeA", "rsi2_freeze_wfa"}
    /\ windows # <<>>
    /\ pc' = "eval"
    /\ k' = 1
    /\ summaries' = <<>>
    /\ cand_df' = <<>>
    /\ UNCHANGED <<split0, inputVars, wfaVars, handed, selVars, gateVars, auxVars>>

\* one pass of the loop over the windows in _eval_candidate_oos: the
\* evaluator runs on the OOS slice of the next window with candidate k
EvalWindow ==
    /\ pc = "eval"
    /\ k <= Len(candidates)
    /\ Len(summaries) < Len(windows)
    /\ \E r \in EvaluatorRets :
           summaries' = Append(summaries, Summary(r))
    /\ handed' = handed \cup
           {[segment |-> "wfa_oos_fixed_params",
             data |-> OosData(windows[Len(summaries) + 1]),
             params |-> candidates[k],
             selected |-> best_row # NoRow]}
    /\ UNCHANGED <<pc, split0, inputVars, wfaVars, k, cand_df, selVars, gateVars, auxVars>>

\* agg = _aggregate_oos(summ); rows.append(...), next candidate
AggregateCandidate ==
    /\ pc = "eval"
    /\ k <= Len(candidates)
    /\ Len(summaries) = Len(windows)
    /\ cand_df' = Append(cand_df, CandRow(k - 1, candidates[k], summaries))
    /\ k' = k + 1
    /\ summaries' = <<>>
    /\ UNCHANGED <<pc, split0, inputVars, wfaVars, handed, selVars, gateVars, auxVars>>

\* all candidates are evaluated: cand_df = pd.DataFrame(rows)
CandidatesDone ==
    /\ pc = "eval"
    /\ k > Len(candidates)
    /\ pc' = "select"
    /\ UNCHANGED <<split0, inputVars, wfaVars, evalVars, selVars, gateVars, auxVars>>

(***************************************************************************)
(* The selection of the frozen ParameterSet                                *)
(***************************************************************************)
\* a filter that needs a rate strictly above the threshold
PassRateOk_Strict(row, minrate) ==
    /\ ~IsNone(row.agg.pos_window_rate)
    /\ RatLt(minrate, row.agg.pos_window_rate)

\* cand_df["pos_window_rate"].fillna(-1.0) >= float(args.min_pos_window_rate)
PassRateOk(row, minrate) ==
    RatGe(IF IsNone(row.agg.pos_window_rate) THEN Rat(0 - 1, 1)
          ELSE row.agg.pos_window_rate, minrate)

\* the rows of a frame that satisfy the filter, in the order of the frame
RECURSIVE FilterRows(_, _)
FilterRows(df, minrate) ==
    IF df = <<>> THEN <<>>
    ELSE IF PassRateOk(Head(df), minrate)
         THEN <<Head(df)>> \o FilterRows(Tail(df), minrate)
         ELSE FilterRows(Tail(df), minrate)

\* order of one sort column, descending, NaN last: -1 a first, 1 b first
ColCmp(a, b) ==
    IF IsNone(a) /\ IsNone(b) THEN 0
    ELSE IF IsNone(a) THEN 1
    ELSE IF IsNone(b) THEN 0 - 1
    ELSE IF RatLt(b, a) THEN 0 - 1
    ELSE IF RatLt(a, b) THEN 1
    ELSE 0

\* a sort on the worst return first, then the median
SortsBefore_WorstFirst(a, b) ==
    LET c1 == ColCmp(a.agg.oos_net_return_worst, b.agg.oos_net_return_worst)
        c2 == ColCmp(a.agg.oos_net_return_median, b.agg.oos_net_return_median)
        c3 == ColCmp(a.agg.oos_net_return_mean, b.agg.oos_net_return_mean)
    IN  c1 < 0 \/ (c1 = 0 /\ (c2 < 0 \/ (c2 = 0 /\ c3 < 0)))

\* by=[median, worst, mean], ascending=[False, False, False]: row a sorts
\* strictly before row b
SortsBefore(a, b) ==
    LET c1 == ColCmp(a.agg.oos_net_return_median, b.agg.oos_net_return_median)
        c2 == ColCmp(a.agg.oos_net_return_worst, b.agg.oos_net_return_worst)
        c3 == ColCmp(a.agg.oos_net_return_mean, b.agg.oos_net_return_mean)
    IN  c1 < 0 \/ (c1 = 0 /\ (c2 < 0 \/ (c2 = 0 /\ c3 < 0)))

\* insertion behind every row that does not sort after x (rows equal on all
\* keys keep their order: the multi-column sort of pandas is stable)
InsertRow(sorted, x) ==
    LET p == Cardinality({j \in 1..Len(sorted) : ~SortsBefore(x, sorted[j])})
    IN  SubSeq(sorted, 1, p) \o <<x>> \o SubSeq(sorted, p + 1, Len(sorted))

\* eligible.sort_values(by=[...], ascending=[False, False, False])
RECURSIVE SortValuesFrom(_, _)
SortValuesFrom(sorted, rest) ==
    IF rest = <<>> THEN sorted
    ELSE SortValuesFrom(InsertRow(sorted, Head(rest)), Tail(rest))

SortValues(df) == SortValuesFrom(<<>>, df)

\* the filter, the fallback, the sort and eligible.iloc[0]; an empty frame
\* has no row 0 (the run dies with an exception)
SelectFrozen ==
    /\ pc = "select"
    /\ cand_df # <<>>
    /\ LET filtered == FilterRows(cand_df, min_pos_window_rate)
           fallback == filtered = <<>>
           sorted   == SortValues(IF fallback THEN cand_df ELSE filtered)
       IN  /\ used_fallback' = fallback
           /\ eligible' = sorted
           /\ best_row' = sorted[1]
    /\ pc' = "test"
    /\ UNCHANGED <<split0, inputVars, wfaVars, evalVars, test_summary, gateVars, auxVars>>

\* Run TEST once, with the frozen parameters
RunTest ==
    /\ pc = "test"
    /\ \E r \in EvaluatorRets :
           test_summary' = [net_return_pct |-> Summary(r).net_return_pct,
                            net_pnl |-> Summary(r).net_pnl,
                            segment |-> "test_freezeA"]
    /\ handed' = handed \cup
           {[segment |-> "test_freezeA",
             data |-> TestData,
             params |-> best_row.params,
             selected |-> best_row # NoRow]}
    /\ pc' = "done"
    /\ UNCHANGED <<split0, inputVars, wfaVars, k, summaries, cand_df,
                   eligible, used_fallback, best_row, gateVars, auxVars>>

(***************************************************************************)
(* Properties of the freeze run and of the selection                       *)
(***************************************************************************)
\* C2: every data slice handed to the evaluator before the frozen
\* ParameterSet is selected holds only rows strictly earlier than test_cut;
\* rows of the Test part reach the evaluator only after the selection, in
\* the final test evaluation, with the frozen parameters.
C2_TestIsolation ==
    \A h \in handed :
        /\ ~h.selected =>
               \A t \in h.data : TsLt(t, split0.cut_test_start_utc)
        /\ h.data \cap split0.test # {} =>
               /\ h.selected
               /\ h.segment = "test_freezeA"
               /\ h.params = best_row.params
        /\ h.segment = "wfa_oos_fixed_params" => ~h.selected

\* a two-leg run that evaluated a non-empty OOS slice holding a bar of the
\* second leg and then the Test part
C2_Witness ==
    /\ pc = "done"
    /\ Len(dfs) = 2
    /\ \E h \in handed :
           /\ h.segment = "wfa_oos_fixed_params"
           /\ h.data \cap dfs[2] # {}
           /\ h.data \cap dfs[1] # {}
    /\ \E h \in handed :
           /\ h.segment = "test_freezeA"
           /\ split0.test \subseteq h.data
           /\ split0.test # {}

\* the pass rate of a row is defined and at least min_pos_window_rate
MeetsMinRate(row) ==
    /\ row.agg.pos_window_rate.den > 0
    /\ row.agg.pos_window_rate.num * min_pos_window_rate.den
           >= min_pos_window_rate.num * row.agg.pos_window_rate.den

FrameRows(df) == {df[n] : n \in 1..Len(df)}

\* C8: a candidate of the list is selected; used_fallback is true exactly
\* when no candidate has a pass rate >= min_pass_rate (an undefined rate
\* does not meet it); without fallback the selected candidate meets the
\* rate, with fallback the selection is made over the full list.
C8_SelectionWithFallback ==
    pc \in {"test", "done"} =>
        /\ best_row \in FrameRows(cand_df)
        /\ used_fallback <=> ~(\E row \in FrameRows(cand_df) : MeetsMinRate(row))
        /\ ~used_fallback => MeetsMinRate(best_row)
        /\ ~used_fallback =>
               FrameRows(eligible) = {row \in FrameRows(cand_df) : MeetsMinRate(row)}
        /\ used_fallback =>
               /\ FrameRows(eligible) = FrameRows(cand_df)
               /\ Len(eligible) = Len(cand_df)

\* fallback among two candidates whose rates are defined but too low
C8_Witness ==
    /\ pc = "test"
    /\ used_fallback
    /\ Len(cand_df) = 2
    /\ \A row \in FrameRows(cand_df) : row.agg.pos_window_rate.den > 0
    /\ best_row.cand = 1

\* the eligible set as the rule defines it
EligibleSet ==
    IF \E row \in FrameRows(cand_df) : MeetsMinRate(row)
    THEN {row \in FrameRows(cand_df) : MeetsMinRate(row)}
    ELSE FrameRows(cand_df)

\* comparison of two sort keys; undefined keys compare equal to each other
\* and are not greater than anything
KeyGt(x, y) == x.den > 0 /\ y.den > 0 /\ x.num * y.den > y.num * x.den
KeyEq(x, y) ==
    \/ x.den = 0 /\ y.den = 0
    \/ x.den > 0 /\ y.den > 0 /\ x.num * y.den = y.num * x.den

\* row a is greater than row b on (median, worst, mean), lexicographically
LexGreater(a, b) ==
    \/ KeyGt(a.agg.oos_net_return_median, b.agg.oos_net_return_median)
    \/ /\ KeyEq(a.agg.oos_net_return_median, b.agg.oos_net_return_median)
       /\ KeyGt(a.agg.oos_net_return_worst, b.agg.oos_net_return_worst)
    \/ /\ KeyEq(a.agg.oos_net_return_median, b.agg.oos_net_return_median)
       /\ KeyEq(a.agg.oos_net_return_worst, b.agg.oos_net_return_worst)
       /\ KeyGt(a.agg.oos_net_return_mean, b.agg.oos_net_return_mean)

LexEqual(a, b) ==
    /\ KeyEq(a.agg.oos_net_return_median, b.agg.oos_net_return_median)
    /\ KeyEq(a.agg.oos_net_return_worst, b.agg.oos_net_return_worst)
    /\ KeyEq(a.agg.oos_net_return_mean, b.agg.oos_net_return_mean)

\* C9: the selected candidate is eligible, no eligible candidate is
\* lexicographically greater on (median, worst, mean), and among the
\* eligible candidates equal on all three keys it is the one enumerated
\* first.
C9_BestIsFirstOfOrder ==
    pc \in {"test", "done"} =>
        /\ best_row \in EligibleSet
        /\ \A e \in EligibleSet : ~LexGreater(e, best_row)
        /\ \A e \in EligibleSet : LexEqual(e, best_row) => e.cand >= best_row.cand
        /\ \A n \in 1..(Len(eligible) - 1) : ~LexGreater(eligible[n + 1], eligible[n])

\* the second candidate wins on the median although the first has the
\* better worst return and the better or equal mean
C9_Witness ==
    /\ pc = "test"
    /\ Len(eligible) = 2
    /\ best_row.cand = 1
    /\ KeyGt(cand_df[1].agg.oos_net_return_worst, cand_df[2].agg.oos_net_return_worst)
    /\ ~KeyGt(cand_df[2].agg.oos_net_return_mean, cand_df[1].agg.oos_net_return_mean)
    /\ KeyGt(cand_df[2].agg.oos_net_return_median, cand_df[1].agg.oos_net_return_median)

(***************************************************************************)
(* gates.py: GateConfig, apply_gates. A summary field that is absent (or   *)
(* None) is None here; the two data timestamps are whole days.             *)
(***************************************************************************)
DefaultMaxddIntrabarPct == 10
DefaultMinTradesAnnualized == 200

\* one check of apply_gates that stops recording after the first failure
GateCheck_FirstOnly(acc, fails, tag) ==
    IF fails /\ acc.ok
    THEN [ok |-> FALSE, reasons |-> Append(acc.reasons, tag)]
    ELSE acc

\* one check of apply_gates: on failure ok = False; reasons.append(tag)
GateCheck(acc, fails, tag) ==
    IF fails
    THEN [ok |-> FALSE, reasons |-> Append(acc.reasons, tag)]
    ELSE acc

\* days = max((t1 - t0).total_seconds() / 86400.0, 1.0)
DaysCovered(t0, t1) ==
    LET d == (t1 - t0) \div SecondsPerDay
    IN  IF d > 1 THEN d ELSE 1

\* the annualized trade count the trade gate compares (gates.py:69-88);
\* 365.25 = 1461 / 4
AnnTrades(s) ==
    IF ~IsNone(s.trades_annualized) THEN s.trades_annualized
    ELSE IF ~IsNone(s.data_dt_min_utc) /\ ~IsNone(s.data_dt_max_utc)
         THEN Rat(s.total_trades.num * 1461,
                  4 * DaysCovered(s.data_dt_min_utc.num, s.data_dt_max_utc.num))
         ELSE Rat(s.total_trades.num, 1)

MaxddMissing(s) == IsNone(s.max_drawdown_intrabar_pct)

\* a drawdown check that rejects a value equal to the limit
MaxddAbove_AtLimit(s, c) ==
    /\ ~IsNone(s.max_drawdown_intrabar_pct)
    /\ ~RatLt(s.max_drawdown_intrabar_pct, c.maxdd_intrabar_pct)

\* float(maxdd) > cfg.maxdd_intrabar_pct
MaxddAbove(s, c) ==
    /\ ~IsNone(s.max_drawdown_intrabar_pct)
    /\ RatLt(c.maxdd_intrabar_pct, s.max_drawdown_intrabar_pct)

TradesMissing(s) == IsNone(s.total_trades)
TradesBelow(s, c) ==
    /\ ~IsNone(s.total_trades)
    /\ RatLt(AnnTrades(s), Rat(c.min_trades_annualized, 1))

AvgHoldBelow(s, c) ==
    /\ ~IsNone(c.min_avg_hold_bars)
    /\ \/ IsNone(s.avg_hold_bars)
       \/ RatLt(s.avg_hold_bars, c.min_avg_hold_bars)

TradesAbove(s, c) ==
    /\ ~IsNone(c.max_trades_annualized)
    /\ \/ IsNone(s.trades_annualized)
       \/ RatLt(c.max_trades_annualized, s.trades_annualized)

NetNotPositive(s, c) ==
    /\ c.require_net_positive
    /\ \/ IsNone(s.net_pnl)
       \/ ~RatLt(Rat(0, 1), s.net_pnl)

\* a verdict taken after the drawdown checks only
ApplyGates_VerdictAfterDrawdown(s, c) ==
    LET a0 == [ok |-> TRUE, reasons |-> <<>>]
        a1 == GateCheck(a0, MaxddMissing(s), "missing_maxdd_intrabar")
        a2 == GateCheck(a1, MaxddAbove(s, c), "maxdd_intrabar>")
        a3 == GateCheck(a2, TradesMissing(s), "missing_trades")
        a4 == GateCheck(a3, TradesBelow(s, c), "trades_annualized<")
        a5 == GateCheck(a4, AvgHoldBelow(s, c), "avg_hold_bars<")
        a6 == GateCheck(a5, TradesAbove(s, c), "trades_annualized>")
        a7 == GateCheck(a6, NetNotPositive(s, c), "net_pnl<=0")
    IN  [gate_ok |-> a2.ok, gate_reasons |-> a7.reasons, gate_cfg |-> c]

ApplyGates(s, c) ==
    LET a0 == [ok |-> TRUE, reasons |-> <<>>]
        a1 == GateCheck(a0, MaxddMissing(s), "missing_maxdd_intrabar")
        a2 == GateCheck(a1, MaxddAbove(s, c), "maxdd_intrabar>")
        a3 == GateCheck(a2, TradesMissing(s), "missing_trades")
        a4 == GateCheck(a3, TradesBelow(s, c), "trades_annualized<")
        a5 == GateCheck(a4, AvgHoldBelow(s, c), "avg_hold_bars<")
        a6 == GateCheck(a5, TradesAbove(s, c), "trades_annualized>")
        a7 == GateCheck(a6, NetNotPositive(s, c), "net_pnl<=0")
    IN  [gate_ok |-> a7.ok, gate_reasons |-> a7.reasons, gate_cfg |-> c]

NoGate == [gate_ok |-> FALSE, gate_reasons |-> <<"not evaluated">>]

GateConfig(maxdd, mintr, minhold, maxtr, netpos) ==
    [maxdd_intrabar_pct |-> maxdd,
     min_trades_annualized |-> mintr,
     min_avg_hold_bars |-> minhold,
     max_trades_annualized |-> maxtr,
     require_net_positive |-> netpos]

DefaultGateConfig ==
    GateConfig(Rat(DefaultMaxddIntrabarPct, 1), DefaultMinTradesAnnualized,
               None, None, TRUE)

NoGateSummary ==
    [max_drawdown_intrabar_pct |-> None, total_trades |-> None,
     net_pnl |-> None, trades_annualized |-> None, avg_hold_bars |-> None,
     data_dt_min_utc |-> None, data_dt_max_utc |-> None]

Evaluate ==
    /\ pc = "gate"
    /\ gate' = ApplyGates(summary, cfg)
    /\ pc' = "gated"
    /\ UNCHANGED <<split0, inputVars, wfaVars, evalVars, selVars, summary, cfg, auxVars>>

IdleGate ==
    /\ summary = NoGateSummary
    /\ cfg = DefaultGateConfig
    /\ gate = NoGate

(***************************************************************************)
(* Properties of the gates                                                 *)
(***************************************************************************)
Reasons == {gate.gate_reasons[n] : n \in 1..Len(gate.gate_reasons)}

Present(x) == x.den > 0

\* C10: every enabled check runs whatever the outcome of the others: the
\* tag of a check is in the reasons exactly when its own condition fails.
\* A drawdown of 12 against a limit of 10 with net_pnl = 500 reports the
\* drawdown tag and no net_pnl tag.
C10_EveryCheckReports ==
    pc = "gated" =>
        /\ "missing_maxdd_intrabar" \in Reasons
               <=> ~Present(summary.max_drawdown_intrabar_pct)
        /\ "maxdd_intrabar>" \in Reasons
               <=> /\ Present(summary.max_drawdown_intrabar_pct)
                   /\ RatLt(cfg.maxdd_intrabar_pct, summary.max_drawdown_intrabar_pct)
        /\ "missing_trades" \in Reasons <=> ~Present(summary.total_trades)
        /\ "trades_annualized<" \in Reasons
               <=> /\ Present(summary.total_trades)
                   /\ RatLt(AnnTrades(summary), Rat(cfg.min_trades_annualized, 1))
        /\ "avg_hold_bars<" \in Reasons
               <=> /\ Present(cfg.min_avg_hold_bars)
                   /\ \/ ~Present(summary.avg_hold_bars)
                      \/ RatLt(summary.avg_hold_bars, cfg.min_avg_hold_bars)
        /\ "trades_annualized>" \in Reasons
               <=> /\ Present(cfg.max_trades_annualized)
                   /\ \/ ~Present(summary.trades_annualized)
                      \/ RatLt(cfg.max_trades_annualized, summary.trades_annualized)
        /\ "net_pnl<=0" \in Reasons
               <=> /\ cfg.require_net_positive
                   /\ \/ ~Present(summary.net_pnl)
                      \/ summary.net_pnl.num <= 0
        /\ (/\ summary.max_drawdown_intrabar_pct = Rat(12, 1)
            /\ cfg.maxdd_intrabar_pct = Rat(10, 1)
            /\ summary.net_pnl = Rat(500, 1))
               => /\ ~gate.gate_ok
                  /\ "maxdd_intrabar>" \in Reasons
                  /\ "net_pnl<=0" \notin Reasons

\* the scenario of the claim, and a summary that fails the drawdown check,
\* the trade check and the net_pnl check at once
C10_Witness ==
    /\ pc = "gated"
    /\ summary.max_drawdown_intrabar_pct = Rat(12, 1)
    /\ cfg.maxdd_intrabar_pct = Rat(10, 1)
    /\ summary.net_pnl = Rat(0, 1)
    /\ cfg.require_net_positive
    /\ gate.gate_reasons = <<"maxdd_intrabar>", "trades_annualized<", "net_pnl<=0">>

\* the trade-count check passed: neither of its two tags is reported
TradeCheckPasses ==
    "missing_trades" \notin Reasons /\ "trades_annualized<" \notin Reasons

\* total_trades * 365.25 / max(days_covered, 1) < min_trades_annualized, with
\* days_covered the whole days between the two data timestamps
DerivedBelow(s, c) ==
    LET days == (s.data_dt_max_utc.num - s.data_dt_min_utc.num) \div SecondsPerDay
        d1   == IF days > 1 THEN days ELSE 1
    IN  s.total_trades.num * 1461 < c.min_trades_annualized * 4 * d1

\* C11: whenever the summary carries trades_annualized the trade-count check
\* is decided by that value alone (it passes iff trades_annualized >=
\* min_trades_annualized), whether or not total_trades and the timestamps
\* are present; only without it the value is derived as
\* total_trades * 365.25 / max(days_covered, 1).
C11_PrefersPrecomputed ==
    pc = "gated" =>
        /\ Present(summary.trades_annualized)
               => (TradeCheckPasses
                     <=> ~RatLt(summary.trades_annualized,
                                Rat(cfg.min_trades_annualized, 1)))
        /\ (/\ ~Present(summary.trades_annualized)
            /\ Present(summary.total_trades)
            /\ Present(summary.data_dt_min_utc)
            /\ Present(summary.data_dt_max_utc))
               => (TradeCheckPasses <=> ~DerivedBelow(summary, cfg))

\* C12: without trades_annualized, and with total_trades absent or one of
\* the two data timestamps absent, gate_ok is false with a trade-count
\* reason, for every min_trades_annualized.
C12_UndeterminableFails ==
    (/\ pc = "gated"
     /\ ~Present(summary.trades_annualized)
     /\ \/ ~Present(summary.total_trades)
        \/ ~Present(summary.data_dt_min_utc)
        \/ ~Present(summary.data_dt_max_utc))
        => ~gate.gate_ok /\ ~TradeCheckPasses

\* the drawdown check passed: neither of its two tags is reported
DrawdownCheckPasses ==
    "missing_maxdd_intrabar" \notin Reasons /\ "maxdd_intrabar>" \notin Reasons

\* C13: the drawdown check passes iff max_drawdown_intrabar_pct is present
\* and <= maxdd_intrabar_pct (equality passes); a summary without the field
\* yields gate_ok = false with the missing-drawdown reason.
C13_DrawdownGate ==
    pc = "gated" =>
        /\ DrawdownCheckPasses
               <=> /\ Present(summary.max_drawdown_intrabar_pct)
                   /\ summary.max_drawdown_intrabar_pct.num * cfg.maxdd_intrabar_pct.den
                          <= cfg.maxdd_intrabar_pct.num * summary.max_drawdown_intrabar_pct.den
        /\ ~Present(summary.max_drawdown_intrabar_pct)
               => /\ ~gate.gate_ok
                  /\ "missing_maxdd_intrabar" \in Reasons

\* a drawdown equal to the limit in a summary that passes every gate
C13_Witness ==
    /\ pc = "gated"
    /\ summary.max_drawdown_intrabar_pct = Rat(12, 1)
    /\ cfg.maxdd_intrabar_pct = Rat(12, 1)
    /\ gate.gate_ok
    /\ gate.gate_reasons = <<>>

(***************************************************************************)
(* gates.py: WfaGateAggregateConfig, aggregate_wfa_oos_gate_results        *)
(***************************************************************************)
\* min_pass_rate: float = 0.70
WfaGateAggregateConfig == [min_pass_rate |-> Rat(7, 10)]

\* agg_cfg = None
NoAggCfg == [min_pass_rate |-> None]

\* sum(1 for r in per_window if r.get("gate_ok"))
PassedWindows(pw) == Cardinality({j \in 1..Len(pw) : pw[j].gate_ok})

\* pass_rate = (passed / n) if n else None
WfaPassRate(pw) ==
    IF Len(pw) # 0 THEN Rat(PassedWindows(pw), Len(pw)) ELSE None

\* a comparison that rejects a pass rate equal to the minimum
WfaRateBelow_AtLimit(pr, ac) == ~IsNone(pr) /\ ~RatLt(ac.min_pass_rate, pr)

\* pass_rate < agg_cfg.min_pass_rate
WfaRateBelow(pr, ac) == ~IsNone(pr) /\ RatLt(pr, ac.min_pass_rate)

AggregateWfaOosGateResults(pw, hard_cfg, ac0) ==
    LET ac == IF ac0 = NoAggCfg THEN WfaGateAggregateConfig ELSE ac0
        pr == WfaPassRate(pw)
        a0 == [ok |-> TRUE, reasons |-> <<>>]
        a1 == GateCheck(a0, IsNone(pr), "missing_windows")
        a2 == GateCheck(a1, WfaRateBelow(pr, ac), "pass_rate<")
    IN  [wfa_gate_ok |-> a2.ok,
         wfa_gate_reasons |-> a2.reasons,
         wfa_windows |-> Len(pw),
         wfa_pass_rate |-> pr,
         wfa_agg_cfg |-> ac]

NoWfaGate ==
    [wfa_gate_ok |-> FALSE, wfa_gate_reasons |-> <<"not evaluated">>,
     wfa_windows |-> 0, wfa_pass_rate |-> None, wfa_agg_cfg |-> NoAggCfg]

AggregateWfa ==
    /\ pc = "aggregate"
    /\ wfa_gate' = AggregateWfaOosGateResults(per_window, cfg, agg_cfg)
    /\ pc' = "aggregated"
    /\ UNCHANGED <<split0, inputVars, wfaVars, evalVars, selVars, gateVars,
                   per_window, agg_cfg, gridVars, basinVars, scoreVars, moreVars>>

IdleAgg ==
    /\ per_window = <<>>
    /\ agg_cfg = NoAggCfg
    /\ wfa_gate = NoWfaGate

\* the number of entries of a per-window list whose gate_ok is true
RECURSIVE CountOk(_)
CountOk(pw) ==
    IF pw = <<>> THEN 0
    ELSE (IF Head(pw).gate_ok THEN 1 ELSE 0) + CountOk(Tail(pw))

\* the minimum pass rate in force: the default 0.70 without a config
MinPassRate == IF agg_cfg = NoAggCfg THEN Rat(7, 10) ELSE agg_cfg.min_pass_rate

\* C14: pass_rate = (windows with gate_ok) / n for n > 0 and undefined for
\* n = 0; wfa_gate_ok iff pass_rate is defined and >= min_pass_rate (default
\* 0.70, equality passes). 8 of 10 windows passing give 0.8 and
\* wfa_gate_ok for 0.7; no windows give wfa_gate_ok = false.
C14_WfaGate ==
    pc = "aggregated" =>
        LET n == Len(per_window)
            passed == CountOk(per_window)
        IN  /\ n = 0 => IsNone(wfa_gate.wfa_pass_rate) /\ ~wfa_gate.wfa_gate_ok
            /\ n > 0 => /\ Present(wfa_gate.wfa_pass_rate)
                        /\ wfa_gate.wfa_pass_rate.num * n
                               = passed * wfa_gate.wfa_pass_rate.den
            /\ wfa_gate.wfa_gate_ok
                   <=> (n > 0 /\ passed * MinPassRate.den >= MinPassRate.num * n)
            /\ (n = 10 /\ passed = 8 /\ MinPassRate = Rat(7, 10))
                   => /\ RatEq(wfa_gate.wfa_pass_rate, Rat(8, 10))
                      /\ wfa_gate.wfa_gate_ok

\* 10 windows of which 8 pass, under the default config
C14_Witness ==
    /\ pc = "aggregated"
    /\ Len(per_window) = 10
    /\ CountOk(per_window) = 8
    /\ agg_cfg = NoAggCfg
    /\ wfa_gate.wfa_gate_ok
    /\ wfa_gate.wfa_gate_reasons = <<>>

\* C28: verdict and reasons always agree: apply_gates returns gate_ok = true
\* exactly when gate_reasons is empty, and the aggregation returns
\* wfa_gate_ok = true exactly when wfa_gate_reasons is empty.
C28_VerdictAgreesWithReasons ==
    /\ pc = "gated" => (gate.gate_ok <=> gate.gate_reasons = <<>>)
    /\ pc = "aggregated" =>
           (wfa_gate.wfa_gate_ok <=> wfa_gate.wfa_gate_reasons = <<>>)

\* a summary that passes the drawdown checks and fails two later ones
C28_Witness ==
    /\ pc = "gated"
    /\ ~gate.gate_ok
    /\ Len(gate.gate_reasons) >= 2
    /\ ~MaxddMissing(summary) /\ ~MaxddAbove(summary, cfg)

\* a window list that fails the aggregate gate with one reason, and one
\* that passes with none
C28_WitnessAggFails ==
    /\ pc = "aggregated"
    /\ ~wfa_gate.wfa_gate_ok
    /\ Len(wfa_gate.wfa_gate_reasons) = 1
    /\ per_window # <<>>

C28_WitnessAggPasses ==
    /\ pc = "aggregated"
    /\ wfa_gate.wfa_gate_ok
    /\ wfa_gate.wfa_gate_reasons = <<>>

(***************************************************************************)
(* Parameter values. A Python value is its type and its number: a bool is  *)
(* 0 or 1, an int n is n/1, a float is a fraction in lowest terms; a str   *)
(* (one that float() rejects) has den = 0 and its identity in num.         *)
(***************************************************************************)
PyBool(b) == [t |-> "bool", num |-> IF b THEN 1 ELSE 0, den |-> 1]
PyInt(n) == [t |-> "int", num |-> n, den |-> 1]
PyStr(id) == [t |-> "str", num |-> id, den |-> 0]

Abs(n) == IF n < 0 THEN 0 - n ELSE n

RECURSIVE Gcd(_, _)
Gcd(a, b) == IF b = 0 THEN a ELSE Gcd(b, a % b)

\* the float n/d, d > 0
PyFloat(n, d) ==
    LET g == Gcd(Abs(n), d)
    IN  [t |-> "float", num |-> n \div g, den |-> d \div g]

IsNumber(v) == v.t # "str"

\* a key that tells the types apart: 3 and 3.0 are different values
ValKey_Typed(v) == v

\* Python's == and hash on values: numbers compare by value whatever their
\* type (True == 1 == 1.0), a str equals only itself
ValKey(v) == [num |-> v.num, den |-> v.den]
ValEq(v, w) == ValKey(v) = ValKey(w)

\* value equality of two ParameterSets: the same keys, equal values
ParamKey(p) == [key \in DOMAIN p |-> ValKey(p[key])]
ParamEq(p, q) == ParamKey(p) = ParamKey(q)

(***************************************************************************)
(* cli_freezeA.py / cli_wfa_retune.py: _grid_from_space. The space is the  *)
(* list of its (key, value list) items in the order of the dict.           *)
(***************************************************************************)
\* one round of itertools.product with the pools taken in reverse: the
\* first key varies fastest
ProductStep_FirstFastest(result, pool) ==
    [i \in 1..(Len(result) * Len(pool)) |->
        result[((i - 1) % Len(result)) + 1] \o <<pool[((i - 1) \div Len(result)) + 1]>>]

\* one round of itertools.product:
\* result = [x + [y] for x in result for y in pool]
ProductStep(result, pool) ==
    [i \in 1..(Len(result) * Len(pool)) |->
        result[((i - 1) \div Len(pool)) + 1] \o <<pool[((i - 1) % Len(pool)) + 1]>>]

\* product(*pools): result = [[]], then one round per pool, first pool first
RECURSIVE ProductFrom(_, _)
ProductFrom(result, pools) ==
    IF pools = <<>> THEN result
    ELSE ProductFrom(ProductStep(result, Head(pools)), Tail(pools))

Product(pools) == ProductFrom(<< <<>> >>, pools)

\* dict(zip(keys, combo))
DictZip(keys, combo) ==
    [key \in {keys[j] : j \in 1..Len(keys)} |->
        combo[CHOOSE j \in 1..Len(keys) : keys[j] = key]]

GridFromSpace(sp) ==
    LET keys == [j \in 1..Len(sp) |-> sp[j].key]
        vals == [j \in 1..Len(sp) |-> sp[j].vals]
        combos == Product(vals)
    IN  [i \in 1..Len(combos) |-> DictZip(keys, combos[i])]

GridStep ==
    /\ pc = "grid"
    /\ grid_out' = GridFromSpace(space)
    /\ pc' = "grid_done"
    /\ UNCHANGED <<split0, inputVars, wfaVars, evalVars, selVars, gateVars,
                   aggVars, space, basinVars, scoreVars, moreVars>>

IdleGrid ==
    /\ space = <<>>
    /\ grid_out = <<>>

IdleBasin ==
    /\ base = <<>>
    /\ basin_cfg = <<>>
    /\ key_vals = <<>>
    /\ basin_out = <<>>

\* the product of the lengths of the value lists from position j on
RECURSIVE Radix(_, _)
Radix(sp, j) == IF j > Len(sp) THEN 1 ELSE Len(sp[j].vals) * Radix(sp, j + 1)

\* C19: grid(space) is the cartesian product of the per-key value lists: its
\* length is the product of the list lengths, and entry i takes for key j
\* the value at digit j of i - 1 written with the list lengths as radices,
\* the first key the most significant (it varies slowest, the last fastest).
C19_GridIsProduct ==
    pc = "grid_done" =>
        /\ Len(grid_out) = Radix(space, 1)
        /\ \A i \in 1..Len(grid_out) :
              /\ DOMAIN grid_out[i] = {space[j].key : j \in 1..Len(space)}
              /\ \A j \in 1..Len(space) :
                    grid_out[i][space[j].key]
                       = space[j].vals[(((i - 1) \div Radix(space, j + 1))
                                          % Len(space[j].vals)) + 1]

\* two keys with two and three values: six ParameterSets, the second key
\* changing between the first two and the first key only at the fourth
C19_Witness ==
    /\ pc = "grid_done"
    /\ Len(space) = 2
    /\ Len(space[1].vals) = 2
    /\ Len(space[2].vals) = 3
    /\ Len(grid_out) = 6
    /\ grid_out[1][space[1].key] = grid_out[3][space[1].key]
    /\ grid_out[1][space[2].key] # grid_out[2][space[2].key]
    /\ grid_out[3][space[1].key] # grid_out[4][space[1].key]

(***************************************************************************)
(* basin.py: BasinConfig, make_basin_params                                *)
(***************************************************************************)
\* pct_steps = (0.05, 0.10, 0.20), int_steps = (1, 2, 4), discrete_values = None
BasinConfig(pct, ints, discrete) ==
    [pct_steps |-> pct, int_steps |-> ints, discrete_values |-> discrete]

DefaultBasinConfig ==
    BasinConfig(<<Rat(1, 20), Rat(1, 10), Rat(1, 5)>>, <<1, 2, 4>>, <<>>)

\* vals.add(x) on a Python set: an element equal to x stays, x is dropped
SetAdd(S, x) == IF \E y \in S : ValEq(y, x) THEN S ELSE S \cup {x}

RECURSIVE AddAll(_, _)
AddAll(S, xs) == IF xs = <<>> THEN S ELSE AddAll(SetAdd(S, Head(xs)), Tail(xs))

\* [base * (1.0 - pct), base * (1.0 + pct)]
PctPerturb(v0, p) ==
    <<PyFloat(v0.num * (p.den - p.num), v0.den * p.den),
      PyFloat(v0.num * (p.den + p.num), v0.den * p.den)>>

\* max(1, int(v0) - int(d)), max(1, int(v0) + int(d))
IntPerturb(v0, d) ==
    <<PyInt(IF v0.num - d > 1 THEN v0.num - d ELSE 1),
      PyInt(IF v0.num + d > 1 THEN v0.num + d ELSE 1)>>

RECURSIVE AddIntSteps(_, _, _)
AddIntSteps(S, v0, steps) ==
    IF steps = <<>> THEN S
    ELSE AddIntSteps(AddAll(S, IntPerturb(v0, Head(steps))), v0, Tail(steps))

RECURSIVE AddPctSteps(_, _, _)
AddPctSteps(S, v0, steps) ==
    IF steps = <<>> THEN S
    ELSE AddPctSteps(AddAll(S, PctPerturb(v0, Head(steps))), v0, Tail(steps))

\* a type test that takes a bool for the int it also is
KeyValues_BoolAsInt(key, v0, c) ==
    IF key \in DOMAIN c.discrete_values
    THEN AddAll({v0}, c.discrete_values[key])
    ELSE IF v0.t \in {"bool", "int"} THEN AddIntSteps({v0}, v0, c.int_steps)
    ELSE IF v0.t = "float" THEN AddPctSteps({v0}, v0, c.pct_steps)
    ELSE {v0}

\* the value set of one key: basin.py:49-65
KeyValues(key, v0, c) ==
    IF key \in DOMAIN c.discrete_values
    THEN AddAll({v0}, c.discrete_values[key])
    ELSE IF v0.t = "bool" THEN {v0}
    ELSE IF v0.t = "int" THEN AddIntSteps({v0}, v0, c.int_steps)
    ELSE IF v0.t = "float" THEN AddPctSteps({v0}, v0, c.pct_steps)
    ELSE {v0}

\* an enumeration of a set without repetition. list(key_vals.keys()) is the
\* order of the dict and sorted(vals, key=str) the order of the texts; the
\* order is left open here, nothing reads it.
RECURSIVE SetToSeq(_)
SetToSeq(S) ==
    IF S = {} THEN <<>>
    ELSE LET x == CHOOSE x \in S : TRUE
         IN  <<x>> \o SetToSeq(S \ {x})

\* the entry_rsi clamp: float() of a str raises and the candidate is kept
EntryRsiSkips(p) ==
    /\ "entry_rsi" \in DOMAIN p
    /\ IsNumber(p["entry_rsi"])
    /\ \/ p["entry_rsi"].num <= 0
       \/ p["entry_rsi"].num >= 100 * p["entry_rsi"].den

\* for kk in ["stop_pct", "take_pct"]: ... if float(p[kk]) <= 0: continue
\* The continue statement belongs to this inner loop over kk: it moves on to
\* the next kk, and grid.append(p) runs whatever the two values are.
StopTakeSkips(p) == FALSE

Kept(p) == ~EntryRsiSkips(p) /\ ~StopTakeSkips(p)

\* uniq[k] = p for every p of the grid, k the tuple of its sorted items: a
\* later equal ParameterSet takes the place of the earlier one
\* (seen is the set of the keys of uniq, i the position in the grid)
RECURSIVE DedupRange(_, _, _, _)
DedupRange(acc, grid, i, hi) ==
    IF i > hi THEN acc
    ELSE LET p == grid[i]
         IN  IF ParamKey(p) \notin acc.seen
             THEN DedupRange([uniq |-> Append(acc.uniq, p),
                              seen |-> acc.seen \cup {ParamKey(p)}],
                             grid, i + 1, hi)
             ELSE DedupRange([uniq |-> [acc.uniq EXCEPT
                                          ![CHOOSE j \in 1..Len(acc.uniq) :
                                               ParamEq(acc.uniq[j], p)] = p],
                              seen |-> acc.seen],
                             grid, i + 1, hi)

\* the loop over the grid, taken sixteen ParameterSets at a time
RECURSIVE Dedup(_, _, _, _)
Dedup(uniq, seen, grid, i) ==
    IF i > Len(grid) THEN uniq
    ELSE LET hi == IF i + 15 < Len(grid) THEN i + 15 ELSE Len(grid)
             r == DedupRange([uniq |-> uniq, seen |-> seen], grid, i, hi)
         IN  Dedup(r.uniq, r.seen, grid, hi + 1)

BasinKeyVals(b, c) == [key \in DOMAIN b |-> KeyValues(key, b[key], c)]

MakeBasinParams(b, c) ==
    LET kv == BasinKeyVals(b, c)
        keys == SetToSeq(DOMAIN b)
        pools == [j \in 1..Len(keys) |-> SetToSeq(kv[keys[j]])]
        combos == Product(pools)
        ps == [i \in 1..Len(combos) |-> DictZip(keys, combos[i])]
    IN  Dedup(<<>>, {}, SelectSeq(ps, Kept), 1)

BasinStep ==
    /\ pc = "basin"
    /\ key_vals' = BasinKeyVals(base, basin_cfg)
    /\ basin_out' = MakeBasinParams(base, basin_cfg)
    /\ pc' = "basin_done"
    /\ UNCHANGED <<split0, inputVars, wfaVars, evalVars, selVars, gateVars,
                   aggVars, gridVars, base, basin_cfg, scoreVars, moreVars>>

(***************************************************************************)
(* Properties of the grid and of the basin                                 *)
(***************************************************************************)
\* two values are equal as Python compares them: numbers by value, a str
\* with itself only
SameValue(v, w) ==
    \/ v.den = 0 /\ w.den = 0 /\ v.num = w.num
    \/ v.den > 0 /\ w.den > 0 /\ v.num * w.den = w.num * v.den

\* value-equal ParameterSets: the same value for every parameter name
SameParams(p, q) ==
    /\ DOMAIN p = DOMAIN q
    /\ \A key \in DOMAIN p : SameValue(p[key], q[key])

\* a value in lowest terms, its type left out: equal for equal values
LowestTerms(v) ==
    LET g == IF v.den = 0 THEN 1 ELSE Gcd(Abs(v.num), v.den)
    IN  [num |-> v.num \div g, den |-> v.den \div g]

\* no two entries of the list are value-equal ParameterSets
NoDuplicates(ps) ==
    Cardinality({[key \in DOMAIN ps[i] |-> LowestTerms(ps[i][key])] :
                    i \in 1..Len(ps)}) = Len(ps)

\* C15: the list returned by basin contains an element value-equal to base.
C15_BasinHasBase ==
    pc = "basin_done" =>
        \E i \in 1..Len(basin_out) : SameParams(basin_out[i], base)

\* C16: no ParameterSet of the list returned by basin has an entry_rsi <= 0
\* or >= 100, and none has a stop_pct or take_pct <= 0.
C16_BasinSanity ==
    pc = "basin_done" =>
        \A i \in 1..Len(basin_out) :
            LET p == basin_out[i]
            IN  /\ ("entry_rsi" \in DOMAIN p /\ p["entry_rsi"].den > 0)
                       => /\ p["entry_rsi"].num > 0
                          /\ p["entry_rsi"].num < 100 * p["entry_rsi"].den
                /\ \A kk \in {"stop_pct", "take_pct"} :
                       (kk \in DOMAIN p /\ p[kk].den > 0) => p[kk].num > 0

\* C17 as stated: neither grid nor basin returns a list with two value-equal
\* ParameterSets.
C17_NoDuplicates == NoDuplicates(grid_out) /\ NoDuplicates(basin_out)

\* no value list of the space holds two value-equal values
DistinctLists(sp) ==
    \A n \in 1..Len(sp) : \A i, j \in 1..Len(sp[n].vals) :
        i # j => ~SameValue(sp[n].vals[i], sp[n].vals[j])

\* C17 amended: basin never returns two value-equal ParameterSets; grid
\* returns none provided no value list of the space holds two value-equal
\* values.
C17_NoDuplicatesFromDistinctLists ==
    /\ NoDuplicates(basin_out)
    /\ DistinctLists(space) => NoDuplicates(grid_out)

\* a basin around entry_rsi = 3 with the explicit values 10.0, 3 and 3.0:
\* the three equal values are one
C17_Witness ==
    /\ pc = "basin_done"
    /\ "entry_rsi" \in DOMAIN base
    /\ base["entry_rsi"] = PyInt(3)
    /\ "entry_rsi" \in DOMAIN basin_cfg.discrete_values
    /\ Cardinality(DOMAIN base) = 2
    /\ Cardinality(key_vals["entry_rsi"]) = 2
    /\ Len(basin_out) >= 2

RangeOf(q) == {q[j] : j \in 1..Len(q)}

\* C18: for a base parameter without discrete override the value set is,
\* for an int, the base and max(1, base - d), max(1, base + d) for every d of
\* int_steps (no perturbed value below 1); for a float, the base and
\* base * (1 - p), base * (1 + p) for every p of pct_steps (7 distinct values
\* for (0.05, 0.10, 0.20) when none collide); for a bool or any other type
\* the base only.
C18_KeyValueSets ==
    pc = "basin_done" =>
        \A key \in DOMAIN base :
            key \notin DOMAIN basin_cfg.discrete_values =>
                LET v0 == base[key]
                    vs == key_vals[key]
                IN  /\ v0.t = "int" =>
                          /\ vs = {v0} \cup
                                UNION {{PyInt(IF v0.num - d > 1 THEN v0.num - d ELSE 1),
                                        PyInt(IF v0.num + d > 1 THEN v0.num + d ELSE 1)} :
                                       d \in RangeOf(basin_cfg.int_steps)}
                          /\ \A v \in vs \ {v0} : v.t = "int" /\ v.num >= 1
                    /\ v0.t = "float" =>
                          /\ vs = {v0} \cup
                                UNION {{PyFloat(v0.num * (p.den - p.num), v0.den * p.den),
                                        PyFloat(v0.num * (p.den + p.num), v0.den * p.den)} :
                                       p \in RangeOf(basin_cfg.pct_steps)}
                          /\ (/\ basin_cfg.pct_steps = <<Rat(1, 20), Rat(1, 10), Rat(1, 5)>>
                              /\ v0.num # 0)
                                 => Cardinality(vs) = 7
                    /\ v0.t \in {"bool", "str"} => vs = {v0}

\* a basin around an int, a float and a bool parameter under the default
\* config: 7 float values, the int clamped at 1, the bool alone
C18_Witness ==
    /\ pc = "basin_done"
    /\ basin_cfg = DefaultBasinConfig
    /\ \E k1, k2 \in DOMAIN base :
          /\ base[k1] = PyFloat(1, 2)
          /\ Cardinality(key_vals[k1]) = 7
          /\ base[k2] = PyBool(TRUE)
          /\ key_vals[k2] = {PyBool(TRUE)}

(***************************************************************************)
(* scorecard.py: ScoreWeights, _clip01, _linear, _safe_float, scorecard_v1 *)
(* A field holds a number, None (absent), or a text float() rejects.       *)
(***************************************************************************)
Text == [num |-> 1, den |-> 0]

\* the fraction n/d, d # 0, in lowest terms with a positive denominator
RatNorm(n, d) ==
    LET g == Gcd(Abs(n), Abs(d))
    IN  IF d < 0 THEN Rat((0 - n) \div g, (0 - d) \div g)
        ELSE Rat(n \div g, d \div g)

RatAdd(a, b) == RatNorm((a.num * b.den) + (b.num * a.den), a.den * b.den)
RatSub(a, b) == RatNorm((a.num * b.den) - (b.num * a.den), a.den * b.den)
RatMul(a, b) == RatNorm(a.num * b.num, a.den * b.den)
RatDiv(a, b) == RatNorm(a.num * b.den, a.den * b.num)

\* robustness 55, risk 25, retq 15, impl 5
ScoreWeights ==
    [robustness |-> Rat(55, 1), risk |-> Rat(25, 1),
     retq |-> Rat(15, 1), impl |-> Rat(5, 1)]

\* a clamp without the upper limit
Clip01_NoUpper(x) == IF RatLt(x, Rat(0, 1)) THEN Rat(0, 1) ELSE x

\* float(max(0.0, min(1.0, x)))
Clip01(x) ==
    LET m == IF RatLt(x, Rat(1, 1)) THEN x ELSE Rat(1, 1)
    IN  IF RatLt(Rat(0, 1), m) THEN m ELSE Rat(0, 1)

\* a map that falls where the linear map rises
Linear_Falling(x, x0, x1) ==
    IF RatEq(x1, x0) THEN Rat(0, 1)
    ELSE Clip01(RatDiv(RatSub(x1, x), RatSub(x1, x0)))

Linear(x, x0, x1) ==
    IF RatEq(x1, x0) THEN Rat(0, 1)
    ELSE Clip01(RatDiv(RatSub(x, x0), RatSub(x1, x0)))

\* float(x), None for None and for what float() rejects
SafeFloat(x) == IF x.den = 0 THEN None ELSE x

\* a or b for two optional numbers: b when a is None
OrElse(a, b) == IF IsNone(a) THEN b ELSE a

\* np.round(x, 6) of x >= 0 in millionths: the six decimals by long
\* division, then the nearest millionth, a tie to the even one
RECURSIVE Digits(_, _, _, _)
Digits(q, r, d, n) ==
    IF n = 0 THEN [q |-> q, r |-> r]
    ELSE Digits((q * 10) + ((r * 10) \div d), (r * 10) % d, d, n - 1)

Round6(x) ==
    LET qr == Digits(x.num \div x.den, x.num % x.den, x.den, 6)
        up == \/ 2 * qr.r > x.den
              \/ 2 * qr.r = x.den /\ qr.q % 2 = 1
    IN  RatNorm(IF up THEN qr.q + 1 ELSE qr.q, 1000000)

(***************************************************************************)
(* stats.py: deflated_sharpe_ratio. The floats are kept in fixed point:    *)
(* sd in units of 1e-5, emax in units of 1e-3, z in units of 1e-2. The     *)
(* returned confidence 0.5 * (1 + erf(z / sqrt(2))) is kept as its z: in   *)
(* IEEE doubles the expression is exactly 1.0 from z = 8.25 upwards and    *)
(* exactly 0.0 from z = -8.38 downwards, and increases with z in between.  *)
(***************************************************************************)
\* int(x) of a number: the fraction is dropped
ToInt(x) ==
    IF x.num >= 0 THEN x.num \div x.den ELSE 0 - ((0 - x.num) \div x.den)

RECURSIVE ISqrtFrom(_, _)
ISqrtFrom(n, x) ==
    LET y == (x + (n \div x)) \div 2
    IN  IF y >= x THEN x ELSE ISqrtFrom(n, y)

\* the whole part of math.sqrt(n)
ISqrt(n) == IF n < 2 THEN n ELSE ISqrtFrom(n, n)

\* math.log(n) for n = 1, 2, ..., in millionths
LnMicro ==
    <<0, 693147, 1098612, 1386294, 1609438, 1791759, 1945910, 2079442,
      2197225, 2302585>>

\* emax = math.sqrt(2.0 * math.log(float(n))), in thousandths
EmaxMilli(n) == ISqrt(2 * LnMicro[n])

\* denom = 252.0; max(denom - 1.0, 1.0)
DsrDenom == 251

\* 1 / DsrDenom in units of 1e-10
PerDenom10 ==
    ((1000000 \div DsrDenom) * 10000)
        + (((1000000 % DsrDenom) * 10000) \div DsrDenom)

\* the z from which 0.5 * (1.0 + math.erf(z / math.sqrt(2.0))) is 1.0, and
\* the -z down from which it is 0.0, in hundredths
ZOneCenti == 825
ZZeroCenti == 838

\* the result None
Undefined == [defined |-> FALSE, z |-> 0]

\* float(max(0.0, min(1.0, dsr))) of dsr = 0.5 * (1 + erf(z / sqrt(2)))
Confidence(zc) ==
    [defined |-> TRUE,
     z |-> IF zc >= ZOneCenti THEN ZOneCenti
           ELSE IF zc <= 0 - ZZeroCenti THEN 0 - ZZeroCenti ELSE zc]

\* the trial count from which a result is computed
MinTrials_One == 2 - 1
MinTrials == 2

\* deflated_sharpe_ratio(sharpe, n_trials, skew, kurtosis) with sr_ref = 0;
\* a sharpe or n_trials that float() or int() rejects ends in the except
\* branch. var is kept in units of 1e-10 (its floor 1e-12 is below one unit)
DeflatedSharpeRatio(sharpe, n_trials, skew, kurtosis) ==
    IF sharpe.den = 0 \/ n_trials.den = 0 THEN Undefined
    ELSE LET sr == sharpe
             n  == ToInt(n_trials)
         IN  IF n < MinTrials THEN Undefined
             ELSE LET t == RatAdd(RatSub(Rat(1, 1), RatMul(skew, sr)),
                                  RatMul(RatDiv(RatSub(kurtosis, Rat(1, 1)),
                                                Rat(4, 1)),
                                         RatMul(sr, sr)))
                      var10 == (t.num * PerDenom10) \div t.den
                      sd5 == ISqrt(IF var10 > 1 THEN var10 ELSE 1)
                      sr5 == (sr.num * 100000) \div sr.den
                      thresh5 == (EmaxMilli(n) * sd5) \div 1000
                      zc == ((sr5 - thresh5) * 100) \div sd5
                  IN  Confidence(zc)

\* one call of deflated_sharpe_ratio with the next trial count of the list
DsrCall ==
    /\ pc = "dsr"
    /\ Len(dsr_ret) < Len(dsr_call.n_trials)
    /\ dsr_ret' = Append(dsr_ret,
                         DeflatedSharpeRatio(dsr_call.sharpe,
                                             dsr_call.n_trials[Len(dsr_ret) + 1],
                                             dsr_call.skew, dsr_call.kurtosis))
    /\ pc' = IF Len(dsr_ret') = Len(dsr_call.n_trials) THEN "dsr_done" ELSE "dsr"
    /\ UNCHANGED <<split0, inputVars, wfaVars, evalVars, selVars, gateVars,
                   aggVars, gridVars, basinVars, scoreVars, dsr_call, pairVars,
                   retuneVars>>

NoDsrCall ==
    [sharpe |-> None, n_trials |-> <<>>, skew |-> Rat(0, 1), kurtosis |-> Rat(3, 1)]

IdleDsr ==
    /\ dsr_call = NoDsrCall
    /\ dsr_ret = <<>>

\* an argument that is None or an empty dict
NoDict(fields) == [present |-> FALSE, f |-> fields]
Dict(fields) == [present |-> TRUE, f |-> fields]

NoWfaSummary == [pos_window_rate |-> None, n_trials |-> None]
NoGateReport == [wfa_pass_rate |-> None]
NoBasinWfa == [basin_pass_rate_median |-> None]
NoBasin == [basin_pass_rate |-> None]
NoSegment ==
    [max_drawdown_intrabar_pct |-> None, max_drawdown_close_len |-> None,
     profit_factor |-> None, expectancy_pct_of_start |-> None,
     expectancy |-> None, sharpe |-> None, net_return_pct |-> None,
     strategy_params |-> FALSE]

\* d.get(name) of an optional dict, through _safe_float
Get(d, name) == IF d.present THEN SafeFloat(d.f[name]) ELSE None

\* the missing tags of the inputs that are None
MissingTags(pairs) == {pr[1] : pr \in {q \in pairs : IsNone(q[2])}}

\* n_trials = wfa_summary.get("n_trials") of a non-empty wfa_summary
TrialsOf(in) ==
    IF in.wfa_summary.present THEN in.wfa_summary.f.n_trials ELSE None

\* the test Sharpe if available, else the val Sharpe
SharpeIn(in) ==
    OrElse(Get(in.test_summary, "sharpe"), Get(in.val_summary, "sharpe"))

\* int(n_trials) of a value int() rejects, outside any try
ScoreRaises(in) ==
    /\ TrialsOf(in) # None
    /\ ~IsNone(SharpeIn(in))
    /\ TrialsOf(in).den = 0

\* dsr: None unless n_trials is not None and a Sharpe is there
DsrOf(in) ==
    IF TrialsOf(in) = None \/ IsNone(SharpeIn(in)) \/ TrialsOf(in).den = 0
    THEN Undefined
    ELSE DeflatedSharpeRatio(SharpeIn(in), Rat(ToInt(TrialsOf(in)), 1),
                             Rat(0, 1), Rat(3, 1))

\* s0 = val_summary or test_summary or {}
S0Of(in) ==
    IF in.val_summary.present THEN in.val_summary
    ELSE IF in.test_summary.present THEN in.test_summary
    ELSE NoDict(NoSegment)

\* s0.get("strategy_params") is there and not empty
HasParams(in) == S0Of(in).present /\ S0Of(in).f.strategy_params

\* an implementability that also asks for a trial count
Impl01_NeedsTrials(in) ==
    IF HasParams(in) /\ TrialsOf(in) # None THEN Rat(1, 1) ELSE Rat(1, 2)

\* impl01 = 1.0, 0.5 if not s0.get("strategy_params")
Impl01(in) == IF HasParams(in) THEN Rat(1, 1) ELSE Rat(1, 2)

ScorecardV1(in, weights) ==
    LET wfa == in.wfa_summary
        val == in.val_summary
        test == in.test_summary
        \* ---------- Robustness ----------
        pwr0 == OrElse(Get(wfa, "pos_window_rate"),
                       Get(in.wfa_gate_report, "wfa_pass_rate"))
        pos_window_rate == OrElse(pwr0, Rat(0, 1))
        bp0 == OrElse(Get(in.basin_wfa_report, "basin_pass_rate_median"),
                      Get(in.basin_report, "basin_pass_rate"))
        basin_pass == OrElse(bp0, Rat(0, 1))
        temporal_score == Linear(pos_window_rate, Rat(0, 1), Rat(7, 10))
        basin_score == Linear(basin_pass, Rat(0, 1), Rat(3, 10))
        robustness01 == RatAdd(RatMul(Rat(6, 10), temporal_score),
                               RatMul(Rat(4, 10), basin_score))
        \* ---------- Deflated Sharpe Ratio ----------
        n_trials == TrialsOf(in)
        dsr == DsrOf(in)
        \* ---------- Risk ----------
        dd0 == OrElse(Get(val, "max_drawdown_intrabar_pct"),
                      Get(test, "max_drawdown_intrabar_pct"))
        dd == OrElse(dd0, Rat(100, 1))
        risk_dd01 == RatSub(Rat(1, 1), Linear(dd, Rat(5, 1), Rat(20, 1)))
        ddl == OrElse(Get(val, "max_drawdown_close_len"),
                      Get(test, "max_drawdown_close_len"))
        risk_len01 == IF IsNone(ddl) THEN Rat(1, 2)
                      ELSE RatSub(Rat(1, 1), Linear(ddl, Rat(500, 1), Rat(5000, 1)))
        risk01 == RatAdd(RatMul(Rat(7, 10), risk_dd01),
                         RatMul(Rat(3, 10), risk_len01))
        \* ---------- Return quality ----------
        s0 == S0Of(in)
        pf0 == Get(s0, "profit_factor")
        exp0 == OrElse(Get(s0, "expectancy_pct_of_start"), Get(s0, "expectancy"))
        sharpe0 == Get(s0, "sharpe")
        netr0 == Get(s0, "net_return_pct")
        pf == OrElse(pf0, Rat(0, 1))
        exp == OrElse(exp0, Rat(0, 1))
        sharpe == OrElse(sharpe0, Rat(0, 1))
        netr == OrElse(netr0, Rat(0, 1))
        pf01 == Clip01(RatDiv(RatSub(pf, Rat(7, 10)),
                              RatSub(Rat(13, 10), Rat(7, 10))))
        exp01 == Clip01(RatDiv(RatAdd(exp, Rat(5, 100)), Rat(10, 100)))
        sharpe01 == Clip01(RatDiv(RatAdd(sharpe, Rat(1, 1)), Rat(2, 1)))
        netr01 == Linear(netr, Rat(0 - 5, 1), Rat(5, 1))
        retq01 == RatAdd(RatAdd(RatMul(Rat(35, 100), pf01),
                                RatMul(Rat(25, 100), exp01)),
                         RatAdd(RatMul(Rat(25, 100), sharpe01),
                                RatMul(Rat(15, 100), netr01)))
        \* ---------- Implementability ----------
        has_params == HasParams(in)
        impl01 == Impl01(in)
        \* ---------- Weighted total ----------
        total == RatAdd(RatAdd(RatMul(weights.robustness, robustness01),
                               RatMul(weights.risk, risk01)),
                        RatAdd(RatMul(weights.retq, retq01),
                               RatMul(weights.impl, impl01)))
    IN  [score_version |-> "v1",
         weights |-> weights,
         inputs |-> [pos_window_rate |-> pos_window_rate,
                     basin_pass_rate |-> basin_pass,
                     max_drawdown_intrabar_pct |-> dd,
                     profit_factor |-> pf, expectancy |-> exp,
                     sharpe |-> sharpe, net_return_pct |-> netr,
                     n_trials |-> n_trials,
                     dsr |-> dsr],
         subscores01 |-> [robustness |-> robustness01, risk |-> risk01,
                          return_quality |-> retq01,
                          implementability |-> impl01,
                          temporal_consistency |-> temporal_score,
                          basin |-> basin_score],
         total_score |-> Round6(total),
         missing |-> MissingTags({<<"wfa_pos_window_rate", pwr0>>,
                                  <<"basin_pass_rate", bp0>>,
                                  <<"max_drawdown_intrabar_pct", dd0>>,
                                  <<"max_drawdown_close_len", ddl>>,
                                  <<"profit_factor", pf0>>,
                                  <<"expectancy", exp0>>,
                                  <<"sharpe", sharpe0>>,
                                  <<"net_return_pct", netr0>>})
                     \cup (IF has_params THEN {} ELSE {"strategy_params"})]

NoScoreInputs ==
    [wfa_summary |-> NoDict(NoWfaSummary),
     wfa_gate_report |-> NoDict(NoGateReport),
     basin_report |-> NoDict(NoBasin),
     basin_wfa_report |-> NoDict(NoBasinWfa),
     val_summary |-> NoDict(NoSegment),
     test_summary |-> NoDict(NoSegment)]

NoScorecard == [score_version |-> "none"]

ScoreStep ==
    /\ pc = "score"
    /\ ~ScoreRaises(score_in)
    /\ scorecard' = ScorecardV1(score_in, ScoreWeights)
    /\ pc' = "scored"
    /\ UNCHANGED <<split0, inputVars, wfaVars, evalVars, selVars, gateVars,
                   aggVars, gridVars, basinVars, score_in, moreVars>>

\* the ValueError of int(n_trials) leaves scorecard_v1: no scorecard
ScoreFail ==
    /\ pc = "score"
    /\ ScoreRaises(score_in)
    /\ pc' = "error"
    /\ UNCHANGED <<split0, inputVars, wfaVars, evalVars, selVars, gateVars,
                   aggVars, gridVars, basinVars, scoreVars, moreVars>>

\* the end of a freeze run: wfa_summary of the selected row with
\* n_trials = len(candidates), then scorecard_v1(wfa_summary, None,
\* test_summary)
FreezeScorecard ==
    /\ pc = "done"
    /\ score_in' =
          [NoScoreInputs EXCEPT
              !.wfa_summary =
                  Dict([pos_window_rate |-> best_row.agg.pos_window_rate,
                        n_trials |-> Rat(Len(candidates), 1)]),
              !.test_summary =
                  Dict([NoSegment EXCEPT
                           !.net_return_pct = Rat(test_summary.net_return_pct, 1),
                           !.strategy_params = TRUE])]
    /\ scorecard' = ScorecardV1(score_in', ScoreWeights)
    /\ pc' = "reported"
    /\ UNCHANGED <<split0, inputVars, wfaVars, evalVars, selVars, gateVars,
                   aggVars, gridVars, basinVars, moreVars>>

\* the metrics of a summary
SegmentMetrics ==
    {"max_drawdown_intrabar_pct", "max_drawdown_close_len", "profit_factor",
     "expectancy_pct_of_start", "expectancy", "sharpe", "net_return_pct"}

\* the numeric inputs of scorecard_v1: <<argument, key>>
MetricFields ==
    {<<"wfa_summary", "pos_window_rate">>,
     <<"wfa_gate_report", "wfa_pass_rate">>,
     <<"basin_wfa_report", "basin_pass_rate_median">>,
     <<"basin_report", "basin_pass_rate">>}
        \cup ({"val_summary", "test_summary"} \X SegmentMetrics)

\* the same arguments with one key of one argument set to v
WithField(in, fld, v) == [in EXCEPT ![fld[1]].f[fld[2]] = v]

\* the same arguments with the trial count n (None: no trial count)
WithTrials(in, n) ==
    IF in.wfa_summary.present THEN WithField(in, <<"wfa_summary", "n_trials">>, n)
    ELSE IF n = None THEN in
    ELSE [in EXCEPT !.wfa_summary = Dict([NoWfaSummary EXCEPT !.n_trials = n])]

\* a second call of scorecard_v1 whose arguments differ from those of the
\* first in one input
ScoreAgain(in2, fld) ==
    /\ pc = "scored"
    /\ in2 # score_in
    /\ ~ScoreRaises(in2)
    /\ score_prev' = [in |-> score_in, out |-> scorecard, changed |-> fld]
    /\ score_in' = in2
    /\ scorecard' = ScorecardV1(in2, ScoreWeights)
    /\ pc' = "rescored"
    /\ UNCHANGED <<split0, inputVars, wfaVars, evalVars, selVars, gateVars,
                   aggVars, gridVars, basinVars, dsrVars, retuneVars>>

\* a second call that raises
ScoreAgainFail(in2, fld) ==
    /\ pc = "scored"
    /\ ScoreRaises(in2)
    /\ score_prev' = [in |-> score_in, out |-> scorecard, changed |-> fld]
    /\ score_in' = in2
    /\ scorecard' = NoScorecard
    /\ pc' = "error"
    /\ UNCHANGED <<split0, inputVars, wfaVars, evalVars, selVars, gateVars,
                   aggVars, gridVars, basinVars, dsrVars, retuneVars>>

IdleScore ==
    /\ score_in = NoScoreInputs
    /\ scorecard = NoScorecard

NoPrev == [in |-> NoScoreInputs, out |-> NoScorecard, changed |-> <<>>]

IdlePair == score_prev = NoPrev

(***************************************************************************)
(* cli_wfa_retune.py, cli_rsi2_walk_forward.py: the choice of a candidate  *)
(* per window on its train summary. A train summary keeps the four fields  *)
(* the choice reads.                                                       *)
(***************************************************************************)
RetuneClis == {"wfa_retune", "rsi2_walk_forward"}

\* float(x or 0.0)
OrZero(x) == IF IsNone(x) THEN Rat(0, 1) ELSE x

\* _score_train: net + 0.01 * pf
ScoreTrain(s) ==
    RatAdd(OrZero(s.net_pnl), RatMul(Rat(1, 100), OrZero(s.profit_factor)))

\* the dd read for a drawdown that is None or 0
DefaultTrainDd == 1000000000

\* dd = float(s.get("max_drawdown_intrabar_pct") or 1e9)
TrainDd(s) ==
    IF IsNone(s.max_drawdown_intrabar_pct) \/ s.max_drawdown_intrabar_pct.num = 0
    THEN Rat(DefaultTrainDd, 1)
    ELSE s.max_drawdown_intrabar_pct

\* trades = int(s.get("total_trades") or 0)
TrainTrades(s) == IF IsNone(s.total_trades) THEN 0 ELSE ToInt(s.total_trades)

\* neither `continue` of the soft filters is taken
PassesTrainFilters(s, maxdd, mintr) ==
    /\ ~RatLt(maxdd, TrainDd(s))
    /\ ~(TrainTrades(s) < mintr)

\* best_score = -1e18, below every score
NegHuge == [num |-> 0 - 1, den |-> 0]

\* score > best_score
ScoreGt(score, bs) == bs = NegHuge \/ RatLt(bs, score)

\* the fallback loop over the summary.json files of the window
RECURSIVE FallbackPick(_, _, _, _)
FallbackPick(summ, j, b, bs) ==
    IF j > Len(summ) THEN [best |-> b, best_score |-> bs]
    ELSE IF ScoreGt(ScoreTrain(summ[j]), bs)
         THEN FallbackPick(summ, j + 1, j, ScoreTrain(summ[j]))
         ELSE FallbackPick(summ, j + 1, b, bs)

\* the train summaries the evaluator may return: a net_pnl and a profit
\* factor, with a drawdown and a trade count that are missing, at their
\* limits, beyond them, or a drawdown of 0
TrainSummaries ==
    {[net_pnl |-> np[1], profit_factor |-> np[2],
      max_drawdown_intrabar_pct |-> ft[1], total_trades |-> ft[2]] :
         np \in {<<Rat(1, 1), None>>, <<Rat(1, 1), Rat(1, 1)>>,
                 <<Rat(1, 1), Rat(3, 1)>>, <<Rat(199, 200), Rat(3, 1)>>},
         ft \in {<<Rat(10, 1), Rat(200, 1)>>, <<None, Rat(200, 1)>>,
                 <<Rat(0, 1), Rat(200, 1)>>, <<Rat(15, 1), Rat(200, 1)>>,
                 <<Rat(10, 1), None>>, <<Rat(10, 1), Rat(100, 1)>>}}

\* the windows exist: best = None, best_score = -1e18 for the first window
RetuneStart ==
    /\ pc = "windows_done"
    /\ cli \in RetuneClis
    /\ windows # <<>>
    /\ pc' = "retune_train"
    /\ UNCHANGED <<split0, inputVars, wfaVars, evalVars, selVars, gateVars,
                   aggVars, gridVars, basinVars, scoreVars, dsrVars, pairVars,
                   retuneVars>>

\* one pass of the loop over the candidates: the train run, the soft
\* filters, the comparison with the best score so far
TrainCandidate ==
    /\ pc = "retune_train"
    /\ Len(train_summaries) < Len(candidates)
    /\ \E s \in TrainSummaries :
          LET j == Len(train_summaries) + 1
              pass == PassesTrainFilters(s, max_dd_intra, min_trades)
              better == pass /\ ScoreGt(ScoreTrain(s), best_score)
          IN  /\ train_summaries' = Append(train_summaries, s)
              /\ rt_passed' = IF pass THEN rt_passed \cup {j} ELSE rt_passed
              /\ best' = IF better THEN j ELSE best
              /\ best_score' = IF better THEN ScoreTrain(s) ELSE best_score
    /\ UNCHANGED <<pc, split0, inputVars, wfaVars, evalVars, selVars, gateVars,
                   aggVars, gridVars, basinVars, scoreVars, dsrVars, pairVars,
                   max_dd_intra, min_trades, rt_fallback, rows>>

\* if best is None: the best by score without filters
RetuneFallback ==
    /\ pc = "retune_train"
    /\ Len(train_summaries) = Len(candidates)
    /\ best = 0
    /\ LET r == FallbackPick(train_summaries, 1, best, best_score)
       IN  /\ best' = r.best
           /\ best_score' = r.best_score
    /\ rt_fallback' = TRUE
    /\ pc' = "retune_oos"
    /\ UNCHANGED <<split0, inputVars, wfaVars, evalVars, selVars, gateVars,
                   aggVars, gridVars, basinVars, scoreVars, dsrVars, pairVars,
                   max_dd_intra, min_trades, train_summaries, rt_passed, rows>>

\* a candidate passed the filters: no fallback
RetuneChosen ==
    /\ pc = "retune_train"
    /\ Len(train_summaries) = Len(candidates)
    /\ best # 0
    /\ pc' = "retune_oos"
    /\ UNCHANGED <<split0, inputVars, wfaVars, evalVars, selVars, gateVars,
                   aggVars, gridVars, basinVars, scoreVars, dsrVars, pairVars,
                   retuneVars>>

\* the OOS run with the chosen parameters, rows.append(...), and the next
\* window (best = None, best_score = -1e18, an empty train directory)
RetuneOos ==
    /\ pc = "retune_oos"
    /\ rows' = Append(rows, [window |-> Len(rows), chosen |-> best,
                             fallback |-> rt_fallback])
    /\ pc' = IF Len(rows') = Len(windows) THEN "retune_done" ELSE "retune_next"
    /\ UNCHANGED <<split0, inputVars, wfaVars, evalVars, selVars, gateVars,
                   aggVars, gridVars, basinVars, scoreVars, dsrVars, pairVars,
                   max_dd_intra, min_trades, train_summaries, best, best_score,
                   rt_passed, rt_fallback>>

RetuneNextWindow ==
    /\ pc = "retune_next"
    /\ train_summaries' = <<>>
    /\ best' = 0
    /\ best_score' = NegHuge
    /\ rt_passed' = {}
    /\ rt_fallback' = FALSE
    /\ pc' = "retune_train"
    /\ UNCHANGED <<split0, inputVars, wfaVars, evalVars, selVars, gateVars,
                   aggVars, gridVars, basinVars, scoreVars, dsrVars, pairVars,
                   max_dd_intra, min_trades, rows>>

IdleRetune ==
    /\ max_dd_intra = Rat(10, 1)
    /\ min_trades = 200
    /\ train_summaries = <<>>
    /\ best = 0
    /\ best_score = NegHuge
    /\ rt_passed = {}
    /\ rt_fallback = FALSE
    /\ rows = <<>>

IdleMore ==
    /\ IdleDsr
    /\ IdlePair
    /\ IdleRetune

(***************************************************************************)
(* Properties of a run without windows                                     *)
(***************************************************************************)
\* the steps of a run up to the return of make_windows, and its two ends
\* without an evaluation
BeforeEvaluation ==
    {"split", "error", "pre", "make_windows", "wfa_loop", "windows_done", "exit"}

\* no evaluation of a (window, candidate), no selection, no test
\* evaluation, no scorecard, no retune choice
NothingEvaluated ==
    /\ handed = {}
    /\ summaries = <<>>
    /\ cand_df = <<>>
    /\ eligible = <<>>
    /\ best_row = NoRow
    /\ test_summary = NoSummary
    /\ scorecard = NoScorecard
    /\ train_summaries = <<>>
    /\ best = 0
    /\ rows = <<>>

\* C25: a run whose window list is empty stops where make_windows returns:
\* it never leaves the steps before the first evaluation, and nothing is
\* evaluated, selected, tested or scored
C25_EmptyWindowsAbort ==
    windows = <<>> => (pc \in BeforeEvaluation /\ NothingEvaluated)

\* a run aborted on an empty window list after a successful split
C25_Witness ==
    /\ pc = "exit"
    /\ windows = <<>>
    /\ split0.status = "ok"
    /\ NothingEvaluated

\* the same in a retune run
C25_WitnessRetune == C25_Witness /\ cli \in RetuneClis

\* runs with windows do reach the scorecard and the OOS rows
C25_WitnessScored == pc = "reported" /\ scorecard # NoScorecard

(***************************************************************************)
(* Properties of the retune selection                                      *)
(***************************************************************************)
TrainNet(j) == OrZero(train_summaries[j].net_pnl)

TrainPf(j) == OrZero(train_summaries[j].profit_factor)

\* candidate a is at least as good as candidate b: more net_pnl; or the
\* same net_pnl and more profit factor; or the same of both and not later
\* in the enumeration
NetThenPf(a, b) ==
    \/ RatLt(TrainNet(b), TrainNet(a))
    \/ /\ TrainNet(a) = TrainNet(b)
       /\ \/ RatLt(TrainPf(b), TrainPf(a))
          \/ TrainPf(a) = TrainPf(b) /\ a <= b

\* C26: the candidate chosen for a window among those that pass the soft
\* train filters has the maximum train net_pnl; the profit factor decides
\* only between equal net_pnl, and the earliest one wins when both are equal
C26_NetPnlThenProfitFactor ==
    (pc = "retune_oos" /\ ~rt_fallback) =>
        /\ best \in rt_passed
        /\ \A j \in rt_passed : NetThenPf(best, j)

\* the chosen candidate does maximise net_pnl + profit_factor / 100, the
\* earliest one among equals
MaximisesScoreTrain ==
    (pc = "retune_oos" /\ ~rt_fallback) =>
        /\ best \in rt_passed
        /\ \A j \in rt_passed :
              /\ ~RatLt(ScoreTrain(train_summaries[best]),
                        ScoreTrain(train_summaries[j]))
              /\ ScoreTrain(train_summaries[j]) = ScoreTrain(train_summaries[best])
                    => best <= j

\* a reported drawdown within the limit and enough reported trades
Qualifies(s) ==
    /\ s.max_drawdown_intrabar_pct # None
    /\ ~RatLt(max_dd_intra, s.max_drawdown_intrabar_pct)
    /\ s.total_trades # None
    /\ ToInt(s.total_trades) >= min_trades

\* C27: a candidate is kept by the soft train filters exactly when its
\* drawdown is reported and at most max_dd_intra (0 included) and its trades
\* are reported and at least min_trades; the fallback without filters is
\* used only when no candidate is kept
C27_SoftFiltersExact ==
    /\ pc \in {"retune_train", "retune_oos"} =>
          \A j \in 1..Len(train_summaries) :
              j \in rt_passed <=> Qualifies(train_summaries[j])
    /\ pc = "retune_oos" =>
          (rt_fallback <=>
              \A j \in 1..Len(train_summaries) : ~Qualifies(train_summaries[j]))

\* the same with the drawdown of exactly 0 left out: every other case of
\* the filters is as stated
SoftFiltersExceptZero ==
    /\ pc \in {"retune_train", "retune_oos"} =>
          \A j \in 1..Len(train_summaries) :
              train_summaries[j].max_drawdown_intrabar_pct # Rat(0, 1) =>
                  (j \in rt_passed <=> Qualifies(train_summaries[j]))
    /\ pc = "retune_oos" =>
          (rt_fallback <=> rt_passed = {})

(***************************************************************************)
(* Properties of the scorecard                                             *)
(***************************************************************************)
In01(x) == x.den > 0 /\ x.num >= 0 /\ x.num <= x.den

SubScores ==
    {scorecard.subscores01.robustness, scorecard.subscores01.risk,
     scorecard.subscores01.return_quality,
     scorecard.subscores01.implementability}

\* 55 * robustness + 25 * risk + 15 * return_quality + 5 * implementability
\* of the sub-scores the scorecard reports, in lowest terms
WeightedSum ==
    LET ss == scorecard.subscores01
    IN  RatAdd(RatAdd(RatMul(Rat(55, 1), ss.robustness),
                      RatMul(Rat(25, 1), ss.risk)),
               RatAdd(RatMul(Rat(15, 1), ss.return_quality),
                      RatMul(Rat(5, 1), ss.implementability)))

TotalIn0To100 ==
    /\ scorecard.total_score.den > 0
    /\ scorecard.total_score.num >= 0
    /\ scorecard.total_score.num <= 100 * scorecard.total_score.den

\* C20 as stated: with the default weights each of the four sub-scores is in
\* [0, 1], total_score equals the weighted sum of the four sub-scores and
\* lies in [0, 100].
C20_TotalIsWeightedSum ==
    pc = "scored" =>
        /\ \A x \in SubScores : In01(x)
        /\ scorecard.total_score = WeightedSum
        /\ TotalIn0To100

\* C20 amended: each of the four sub-scores is in [0, 1]; total_score is the
\* weighted sum of the four sub-scores rounded to 6 decimal places (it is a
\* whole number of millionths, at most half a millionth from the sum) and
\* lies in [0, 100].
C20_TotalIsRoundedWeightedSum ==
    pc = "scored" =>
        /\ \A x \in SubScores : In01(x)
        /\ 1000000 % scorecard.total_score.den = 0
        /\ LET s == WeightedSum
               \* s = (fl.q + fl.r / s.den) millionths, 0 <= fl.r < s.den
               fl == Digits(s.num \div s.den, s.num % s.den, s.den, 6)
               m == scorecard.total_score.num
                       * (1000000 \div scorecard.total_score.den)
           IN  \/ m = fl.q /\ 2 * fl.r <= s.den
               \/ m = fl.q + 1 /\ 2 * fl.r >= s.den
        /\ TotalIn0To100

\* a pass rate of 1/3 with everything else present: the weighted sum is not
\* a whole number of millionths
C20_Witness ==
    /\ pc = "scored"
    /\ score_in.wfa_summary.present
    /\ score_in.wfa_summary.f.pos_window_rate = Rat(1, 3)
    /\ score_in.val_summary.present
    /\ scorecard.missing = {}
    /\ scorecard.total_score # WeightedSum
    /\ RatLt(Rat(0, 1), scorecard.total_score)
    /\ RatLt(scorecard.total_score, Rat(100, 1))

\* the metric is in neither summary (or is no number in both)
Absent(name) ==
    /\ IsNone(Get(score_in.val_summary, name))
    /\ IsNone(Get(score_in.test_summary, name))

PassRateAbsent ==
    /\ IsNone(Get(score_in.wfa_summary, "pos_window_rate"))
    /\ IsNone(Get(score_in.wfa_gate_report, "wfa_pass_rate"))

BasinRateAbsent ==
    /\ IsNone(Get(score_in.basin_wfa_report, "basin_pass_rate_median"))
    /\ IsNone(Get(score_in.basin_report, "basin_pass_rate"))

\* the drawdown part of the risk sub-score, from the reported drawdown
RiskOfDrawdown ==
    RatMul(Rat(7, 10),
           RatSub(Rat(1, 1),
                  Linear(scorecard.inputs.max_drawdown_intrabar_pct,
                         Rat(5, 1), Rat(20, 1))))

\* absent inputs (trial count absent or a number) never end in an error;
\* each absent input is listed; an absent positive-good metric counts as 0;
\* an absent drawdown counts as the worst end of its scale
DegradesExceptLength ==
    /\ pc = "error" => TrialsOf(score_in) # None /\ IsNone(TrialsOf(score_in))
    /\ pc = "scored" =>
          /\ PassRateAbsent =>
                /\ "wfa_pos_window_rate" \in scorecard.missing
                /\ scorecard.inputs.pos_window_rate = Rat(0, 1)
                /\ scorecard.subscores01.temporal_consistency = Rat(0, 1)
          /\ BasinRateAbsent =>
                /\ "basin_pass_rate" \in scorecard.missing
                /\ scorecard.inputs.basin_pass_rate = Rat(0, 1)
                /\ scorecard.subscores01.basin = Rat(0, 1)
          /\ Absent("profit_factor") =>
                /\ "profit_factor" \in scorecard.missing
                /\ scorecard.inputs.profit_factor = Rat(0, 1)
          /\ (Absent("expectancy_pct_of_start") /\ Absent("expectancy")) =>
                /\ "expectancy" \in scorecard.missing
                /\ scorecard.inputs.expectancy = Rat(0, 1)
          /\ Absent("sharpe") =>
                /\ "sharpe" \in scorecard.missing
                /\ scorecard.inputs.sharpe = Rat(0, 1)
          /\ Absent("net_return_pct") =>
                /\ "net_return_pct" \in scorecard.missing
                /\ scorecard.inputs.net_return_pct = Rat(0, 1)
          /\ Absent("max_drawdown_intrabar_pct") =>
                /\ "max_drawdown_intrabar_pct" \in scorecard.missing
                /\ RiskOfDrawdown = Rat(0, 1)
          /\ Absent("max_drawdown_close_len") =>
                "max_drawdown_close_len" \in scorecard.missing

\* C21: missing scorecard inputs degrade conservatively and are disclosed:
\* no subset of absent inputs raises, each absent input is listed in the
\* missing inputs, an absent positive-good metric is scored as the value 0,
\* and an absent risk metric (drawdown, drawdown length) is scored as the
\* worst end of its scale: its risk component contributes 0.
C21_MissingInputsConservative ==
    /\ DegradesExceptLength
    /\ (pc = "scored" /\ Absent("max_drawdown_close_len")) =>
          scorecard.subscores01.risk = RiskOfDrawdown

\* a trial count that is a whole number
IsCount(n) == n.den = 1

\* C22: the deflated confidence is strictly decreasing in the trial count:
\* for a fixed Sharpe (and skew and kurtosis) and trial counts n2 > n1 >= 2,
\* confidence(s, n2) < confidence(s, n1).
C22_StrictlyDecreasingInTrials ==
    pc = "dsr_done" =>
        \A i, j \in 1..Len(dsr_ret) :
            LET n1 == dsr_call.n_trials[i]
                n2 == dsr_call.n_trials[j]
            IN  (/\ dsr_call.sharpe.den # 0
                 /\ IsCount(n1) /\ IsCount(n2)
                 /\ n1.num >= 2 /\ n2.num > n1.num)
                    => /\ dsr_ret[i].defined
                       /\ dsr_ret[j].defined
                       /\ dsr_ret[j].z < dsr_ret[i].z

\* what does hold: more trials never raise the confidence, and lower it
\* whenever the lower count's confidence is strictly between 0 and 1
DecreasingUnlessSaturated ==
    pc = "dsr_done" =>
        \A i, j \in 1..Len(dsr_ret) :
            LET n1 == dsr_call.n_trials[i]
                n2 == dsr_call.n_trials[j]
            IN  (/\ dsr_call.sharpe.den # 0
                 /\ IsCount(n1) /\ IsCount(n2)
                 /\ n1.num >= 2 /\ n2.num > n1.num)
                    => /\ dsr_ret[j].z <= dsr_ret[i].z
                       /\ (/\ dsr_ret[i].z < ZOneCenti
                           /\ dsr_ret[i].z > 0 - ZZeroCenti)
                              => dsr_ret[j].z < dsr_ret[i].z

\* a number below 2
BelowTwo(n) == n.den > 0 /\ n.num < 2 * n.den

\* C23: for every Sharpe value the deflated confidence requested with
\* n_trials < 2 is the undefined result None (no number, no default, no
\* raised error), and the dsr field of a scorecard computed with such a
\* trial count is undefined as well.
C23_UndefinedBelowTwoTrials ==
    /\ pc = "dsr_done" =>
           \A i \in 1..Len(dsr_ret) :
               BelowTwo(dsr_call.n_trials[i]) => dsr_ret[i] = Undefined
    /\ BelowTwo(TrialsOf(score_in)) =>
           /\ pc # "error"
           /\ pc = "scored" => scorecard.inputs.dsr = Undefined

\* a scorecard with a Sharpe and one trial
C23_Witness ==
    /\ pc = "scored"
    /\ TrialsOf(score_in) = Rat(1, 1)
    /\ ~IsNone(SharpeIn(score_in))
    /\ scorecard.inputs.dsr = Undefined
    /\ scorecard.inputs.n_trials = Rat(1, 1)

\* direct calls with a Sharpe of 1/2: one trial gives None, two trials a
\* confidence
C23_WitnessCall ==
    /\ pc = "dsr_done"
    /\ dsr_call.sharpe = Rat(1, 2)
    /\ dsr_call.n_trials = <<Rat(1, 1), Rat(2, 1)>>
    /\ dsr_ret[1] = Undefined
    /\ dsr_ret[2].defined

\* a total_score in millionths
Millionths(x) == x.num * (1000000 \div x.den)

TrialsField == <<"wfa_summary", "n_trials">>

\* C29: the deflated statistic does not feed the score: two calls whose
\* inputs differ only in the trial count (present, absent, or another count)
\* return the same sub-scores, the same total_score and the same missing
\* inputs; only the reported n_trials and dsr differ.
C29_TrialsDoNotFeedScore ==
    (pc = "rescored" /\ score_prev.changed = TrialsField) =>
        /\ scorecard.subscores01 = score_prev.out.subscores01
        /\ scorecard.total_score = score_prev.out.total_score
        /\ scorecard.missing = score_prev.out.missing
        /\ \A name \in DOMAIN scorecard.inputs \ {"n_trials", "dsr"} :
               scorecard.inputs[name] = score_prev.out.inputs[name]

\* a first call without a trial count and a second with 10 trials, a Sharpe
\* in both: the second reports a confidence, the first none
C29_Witness ==
    /\ pc = "rescored"
    /\ score_prev.changed = TrialsField
    /\ score_prev.out.inputs.n_trials = None
    /\ score_prev.out.inputs.dsr = Undefined
    /\ scorecard.inputs.n_trials = Rat(10, 1)
    /\ scorecard.inputs.dsr.defined
    /\ scorecard.total_score = score_prev.out.total_score

RiskMetrics == {"max_drawdown_intrabar_pct", "max_drawdown_close_len"}

\* C30: total_score is monotone in each present input, all others fixed: it
\* never decreases when a pass rate, profit factor, expectancy, Sharpe or net
\* return increases and never increases when the drawdown or the drawdown
\* length increases.
C30_TotalMonotone ==
    (pc = "rescored" /\ score_prev.changed # TrialsField) =>
        IF score_prev.changed[2] \in RiskMetrics
        THEN Millionths(scorecard.total_score)
                 <= Millionths(score_prev.out.total_score)
        ELSE Millionths(scorecard.total_score)
                 >= Millionths(score_prev.out.total_score)

\* a higher drawdown in the val summary lowered the total
C30_Witness ==
    /\ pc = "rescored"
    /\ score_prev.changed = <<"val_summary", "max_drawdown_intrabar_pct">>
    /\ Millionths(scorecard.total_score)
           < Millionths(score_prev.out.total_score)

\* a higher pass rate raised the total
C30_WitnessRising ==
    /\ pc = "rescored"
    /\ score_prev.changed = <<"wfa_summary", "pos_window_rate">>
    /\ Millionths(scorecard.total_score)
           > Millionths(score_prev.out.total_score)

\* the part of the state the other operations leave untouched
IdleAux ==
    /\ IdleAgg
    /\ IdleGrid
    /\ IdleBasin
    /\ IdleScore
    /\ IdleMore

(***************************************************************************)
(* Properties of the split                                                 *)
(***************************************************************************)
\* C1: when split succeeds, train, val and test are pairwise disjoint and
\* their union is exactly the input series (no gap, no overlap).
C1_SplitPartitionsInput ==
    split0.status = "ok" =>
        /\ split0.train \cap split0.val = {}
        /\ split0.train \cap split0.test = {}
        /\ split0.val \cap split0.test = {}
        /\ split0.train \cup split0.val \cup split0.test = dfs[1]

C1_Witness ==
    /\ split0.status = "ok"
    /\ split0.train # {} /\ split0.val # {} /\ split0.test # {}
    /\ split0.cut_test_start_utc \in split0.test

\* the calendar date one year before the date of t, the day clamped to the
\* length of the month, as <<year, month, day>>
SameDateLastYear(t) ==
    LET e == CivilFromDays(t \div SecondsPerDay + EpochDays)
        dim == DaysInMonth(e[1] - 1, e[2])
    IN  <<e[1] - 1, e[2], IF e[3] > dim THEN dim ELSE e[3]>>

\* C3: on success test_cut is the last timestamp minus 12 calendar months
\* (same time of day), test is exactly the rows at or after test_cut, and
\* every train and val row is strictly earlier than test_cut.
C3_TestStartsAtCut ==
    split0.status = "ok" =>
        LET last == SetMax(dfs[1])
            cut  == split0.cut_test_start_utc
        IN  /\ CivilFromDays(cut \div SecondsPerDay + EpochDays) = SameDateLastYear(last)
            /\ cut % SecondsPerDay = last % SecondsPerDay
            /\ split0.test = {t \in dfs[1] : t >= cut}
            /\ \A t \in split0.train \cup split0.val : t < cut

\* the last bar is a 29 February, a bar sits exactly on the cut
C3_Witness ==
    /\ split0.status = "ok"
    /\ SetMax(dfs[1]) = Ts(2024, 2, 29, 0)
    /\ split0.cut_test_start_utc = Ts(2023, 2, 28, 0)
    /\ Ts(2023, 2, 28, 0) \in split0.test
    /\ Ts(2023, 2, 28, 0) - 1 \in split0.train \cup split0.val

\* no row strictly earlier than the last timestamp minus 12 months
NoRowBeforeCut(df) ==
    df = {} \/ \A t \in df : t >= AddMonths(SetMax(df), 0 - 12)

\* C4: split fails, and returns no SplitResult, exactly when the series has
\* no row strictly earlier than last - 12 months (empty, or spanning 12
\* months or less); otherwise it succeeds.
C4_InsufficientHistory ==
    pc # "split" =>
        /\ split0.status = "error" <=> NoRowBeforeCut(dfs[1])
        /\ split0.status = "ok" <=> ~NoRowBeforeCut(dfs[1])
        /\ split0.status = "error" =>
               split0.train = {} /\ split0.val = {} /\ split0.test = {}
        /\ split0.status = "ok" => split0.train # {}

\* a series spanning exactly 12 months fails
C4_Witness ==
    /\ split0.status = "error"
    /\ Cardinality(dfs[1]) >= 2
    /\ SetMin(dfs[1]) = AddMonths(SetMax(dfs[1]), 0 - 12)

\* the rows before the cut of a successful split
PreRows == {t \in dfs[1] : t < split0.cut_test_start_utc}

\* C24: within the rows before test_cut, train is exactly the rows at or
\* before split_point = pre.first + 0.8 * (pre.last - pre.first) and val
\* exactly the rows after it; every train row is earlier than every val row
\* and train contains pre.first.
C24_TrainValByElapsedTime ==
    split0.status = "ok" =>
        LET first == SetMin(PreRows)
            last  == SetMax(PreRows)
        IN  /\ split0.train = {t \in PreRows : 5 * (t - first) <= 4 * (last - first)}
            /\ split0.val = {t \in PreRows : 5 * (t - first) > 4 * (last - first)}
            /\ \A a \in split0.train : \A b \in split0.val : a < b
            /\ first \in split0.train

\* three rows before the cut, two of them late: one row in train (a division
\* by rows would put two there)
C24_Witness ==
    /\ split0.status = "ok"
    /\ Cardinality(PreRows) = 3
    /\ Cardinality(split0.train) = 1
    /\ Cardinality(split0.val) = 2

\* a successful split with an empty val: a single row before the cut
C24_WitnessEmptyVal ==
    /\ split0.status = "ok"
    /\ split0.val = {}
    /\ split0.train # {}

(***************************************************************************)
(* Properties of the window generator                                      *)
(***************************************************************************)
\* months since year 0 of the calendar month a timestamp lies in
MonthIndex(t) ==
    LET ymd == CivilFromDays(t \div SecondsPerDay + EpochDays)
    IN  ymd[1] * 12 + ymd[2] - 1

\* C5: in a returned window list with train_months >= 1 and oos_months >= 1
\* the first oos_start is series.first plus train_months, each later
\* oos_start is the previous one plus exactly oos_months, and every window
\* has train_end < oos_start <= oos_end.
C5_WindowSpacing ==
    (pc = "windows_done" /\ train_months >= 1 /\ oos_months >= 1) =>
        /\ windows # <<>> =>
               windows[1].oos_start = AddMonths(SetMin(index_utc), train_months)
        /\ \A i \in 1..(Len(windows) - 1) :
               /\ windows[i + 1].oos_start = AddMonths(windows[i].oos_start, oos_months)
               /\ MonthIndex(windows[i + 1].oos_start)
                      = MonthIndex(windows[i].oos_start) + oos_months
        /\ \A i \in 1..Len(windows) :
               /\ windows[i].train_end < windows[i].oos_start
               /\ windows[i].oos_start <= windows[i].oos_end

\* three windows from a series that starts on a 31st (the day is clamped)
C5_Witness ==
    /\ pc = "windows_done"
    /\ train_months >= 1 /\ oos_months >= 1
    /\ Len(windows) >= 3
    /\ SetMin(index_utc) = Ts(2023, 1, 31, 0)

\* C6 as stated: the empty list for every series whose span (last - first)
\* is smaller than train_months + oos_months.
C6_EmptyBelowFullCycle ==
    (pc = "windows_done"
        /\ TsLt(IndexMax(index_utc), AddMonths(IndexMin(index_utc), train_months + oos_months)))
    => windows = <<>>

\* the end of the first OOS span: ((first + train_months) + oos_months) - 1 s
FirstOosEnd(idx, tm, om) == MinusSecond(AddMonths(AddMonths(IndexMin(idx), tm), om))

\* C6 amended: the first pass of the loop stops, and the empty list is
\* returned, for every series whose last timestamp is earlier than
\* ((first + train_months) + oos_months) - 1 second.
C6_EmptyBelowFirstOosEnd ==
    TsLt(IndexMax(index_utc), FirstOosEnd(index_utc, train_months, oos_months)) =>
        /\ pc \in {"wfa_loop", "windows_done"} => windows = <<>>
        /\ pc = "wfa_loop" => WfaStop(oos_start, oos_months, index_utc)

\* the series ends one second before the end of the first OOS span
C6_Witness ==
    /\ pc = "windows_done"
    /\ windows = <<>>
    /\ train_months = 1 /\ oos_months = 1
    /\ index_utc = {Ts(2023, 1, 31, 0), Ts(2023, 3, 28, 0) - 2}

\* C7: window generation terminates: the stop condition is reached and the
\* list is returned.
C7_WfaTerminates == <>(pc = "windows_done")

\* whenever the loop does stop, no window was dropped by MaxWindows
WfaListComplete == pc = "windows_done" => Len(windows) < MaxWindows

\* the part of the state a run has not touched before its first step
IdleRun ==
    /\ k = 0
    /\ summaries = <<>>
    /\ cand_df = <<>>
    /\ handed = {}
    /\ eligible = <<>>
    /\ used_fallback = FALSE
    /\ best_row = NoRow
    /\ test_summary = NoSummary
    /\ IdleGate
    /\ IdleAux

(***************************************************************************)
(* Inputs of the split: series of at most MaxRows bars on a grid of        *)
(* instants around the month ends that matter for a 12 month offset.       *)
(***************************************************************************)
MaxRows == 4

SplitGrid ==
    { Ts(2023, 1, 1, 0), Ts(2023, 1, 31, 0),
      Ts(2023, 2, 28, 0) - 1, Ts(2023, 2, 28, 0), Ts(2023, 3, 1, 0),
      Ts(2023, 3, 31, 0) - 1, Ts(2023, 3, 31, 0), Ts(2023, 9, 15, 0),
      Ts(2024, 1, 1, 0), Ts(2024, 2, 28, 0), Ts(2024, 2, 29, 0),
      Ts(2024, 3, 1, 0), Ts(2024, 3, 31, 0) }

SeriesOn(grid, n) == {S \in SUBSET grid : Cardinality(S) <= n}

SplitInit ==
    /\ pc = "split"
    /\ cli \in {"freezeA", "rsi2_freeze_wfa"}
    /\ \E S \in SeriesOn(SplitGrid, MaxRows) : dfs = <<S>>
    /\ split0 = NoSplit
    /\ index_utc = {}
    /\ train_months = 12
    /\ oos_months = 3
    /\ oos_start = NaT
    /\ windows = <<>>
    /\ candidates = <<>>
    /\ min_pos_window_rate = Rat(7, 10)
    /\ IdleRun

SplitNext == SplitOk \/ SplitFail

SplitSpec == SplitInit /\ [][SplitNext]_vars


(***************************************************************************)
(* Inputs of the window generator: an index on a grid of instants around   *)
(* month boundaries, and month counts as the command line accepts them     *)
(* (any integer; 0 included).                                              *)
(***************************************************************************)
MaxTrainMonths == 2
MaxOosMonths == 2

WfaGrid ==
    { Ts(2023, 1, 1, 0), Ts(2023, 1, 31, 0),
      Ts(2023, 3, 1, 0) - 1, Ts(2023, 3, 1, 0),
      Ts(2023, 3, 28, 0) - 2, Ts(2023, 3, 28, 0) - 1, Ts(2023, 3, 31, 0),
      Ts(2023, 4, 1, 0) - 1, Ts(2023, 5, 1, 0), Ts(2023, 7, 1, 0) - 1 }

WfaInit ==
    /\ pc = "make_windows"
    /\ cli = "freezeA"
    /\ dfs = <<{}>>
    /\ split0 = NoSplit
    /\ index_utc \in SeriesOn(WfaGrid, MaxRows)
    /\ train_months \in 0..MaxTrainMonths
    /\ oos_months \in 0..MaxOosMonths
    /\ oos_start = NaT
    /\ windows = <<>>
    /\ candidates = <<>>
    /\ min_pos_window_rate = Rat(7, 10)
    /\ IdleRun

WfaNext == WfaStart \/ WfaAppend \/ WfaBreak

WfaSpec == WfaInit /\ [][WfaNext]_vars

\* Termination is checked on the series of at most two bars that start on
\* 2023-01-01 (the loop reads only the first and the last timestamp). The
\* loop is a single thread of control: a pass that can run does run.
WfaLiveInit ==
    /\ WfaInit
    /\ Ts(2023, 1, 1, 0) \in index_utc
    /\ Cardinality(index_utc) <= 2

WfaLiveSpec == WfaLiveInit /\ [][WfaNext]_vars /\ WF_vars(WfaNext)


(***************************************************************************)
(* Inputs of the selection: the aggregated rows of 1..MaxCand candidates   *)
(* evaluated on the same 0..MaxWin windows, each window return in          *)
(* -1..MaxRet. The aggregate of a candidate reads its window returns as a  *)
(* multiset, so each list of returns is drawn in non-decreasing order.     *)
(***************************************************************************)
MaxCand == 2
MaxWin == 3
MaxRet == 1

RECURSIVE WindowReturns(_, _)
WindowReturns(n, lo) ==
    IF n = 0 THEN {<<>>}
    ELSE UNION {{<<v>> \o q : q \in WindowReturns(n - 1, v)} : v \in lo..MaxRet}

MinRates == {Rat(1, 2), Rat(7, 10), Rat(1, 1)}

SelectInit ==
    /\ pc = "select"
    /\ cli \in {"freezeA"}
    /\ dfs = <<{}>>
    /\ split0 = NoSplit
    /\ index_utc = {}
    /\ train_months = 12
    /\ oos_months = 3
    /\ oos_start = NaT
    /\ windows = <<>>
    /\ min_pos_window_rate \in MinRates
    /\ \E nc \in 1..MaxCand, nw \in 0..MaxWin :
         \E rets \in [1..nc -> WindowReturns(nw, 0 - 1)] :
            /\ candidates = [c \in 1..nc |-> c]
            /\ k = nc + 1
            /\ cand_df = [c \in 1..nc |->
                            CandRow(c - 1, c, [w \in 1..nw |-> Summary(rets[c][w])])]
    /\ summaries = <<>>
    /\ handed = {}
    /\ eligible = <<>>
    /\ used_fallback = FALSE
    /\ best_row = NoRow
    /\ test_summary = NoSummary
    /\ IdleGate
    /\ IdleAux

SelectNext == SelectFrozen

SelectSpec == SelectInit /\ [][SelectNext]_vars

(***************************************************************************)
(* The freeze run from the split to the test evaluation                    *)
(***************************************************************************)
FreezeSeries ==
    { {Ts(2023, 1, 1, 0), Ts(2023, 2, 28, 0), Ts(2023, 3, 31, 0) - 1,
       Ts(2023, 3, 31, 0), Ts(2024, 3, 31, 0)},
      {Ts(2023, 1, 1, 0), Ts(2023, 3, 1, 0) - 1, Ts(2023, 3, 1, 0),
       Ts(2023, 9, 15, 0), Ts(2024, 3, 1, 0)},
      {Ts(2023, 1, 31, 0), Ts(2023, 2, 28, 0) - 1, Ts(2023, 2, 28, 0),
       Ts(2024, 2, 29, 0)},
      {Ts(2023, 1, 1, 0), Ts(2023, 3, 1, 0), Ts(2023, 3, 31, 0),
       Ts(2024, 2, 28, 0)},
      {Ts(2023, 3, 1, 0), Ts(2024, 1, 1, 0), Ts(2024, 3, 1, 0)},
      {} }

\* the second leg of a two-leg strategy, not aligned with leg 0
FreezeLeg1 ==
    {Ts(2023, 1, 31, 0), Ts(2023, 2, 28, 0), Ts(2023, 3, 1, 0) - 1,
     Ts(2023, 3, 31, 0) - 1, Ts(2023, 3, 31, 0), Ts(2024, 1, 1, 0)}

FreezeInit ==
    /\ pc = "split"
    /\ cli \in {"freezeA", "rsi2_freeze_wfa"}
    /\ \E S \in FreezeSeries :
          dfs \in {<<S>>} \cup (IF cli = "freezeA" THEN {<<S, FreezeLeg1>>} ELSE {})
    /\ split0 = NoSplit
    /\ index_utc = {}
    /\ train_months \in 0..MaxTrainMonths
    /\ oos_months \in 0..MaxOosMonths
    /\ oos_start = NaT
    /\ windows = <<>>
    /\ candidates = [c \in 1..MaxCand |-> c]
    /\ min_pos_window_rate \in {Rat(7, 10)}
    /\ IdleRun

FreezeNext ==
    \/ SplitOk
    \/ SplitFail
    \/ BuildPre
    \/ WfaStart
    \/ WfaAppend
    \/ WfaBreak
    \/ NoWindows
    \/ StartCandidates
    \/ EvalWindow
    \/ AggregateCandidate
    \/ CandidatesDone
    \/ SelectFrozen
    \/ RunTest

FreezeSpec == FreezeInit /\ [][FreezeNext]_vars


(***************************************************************************)
(* Inputs of the gates: summaries with every field present or absent and   *)
(* values on both sides of each threshold.                                 *)
(***************************************************************************)
GateDay0 == Ts(2023, 1, 1, 0)

GateSummaries ==
    [max_drawdown_intrabar_pct : {None, Rat(10, 1), Rat(12, 1)},
     total_trades : {None, Rat(50, 1), Rat(300, 1)},
     net_pnl : {None, Rat(0, 1), Rat(500, 1)},
     trades_annualized : {None, Rat(100, 1), Rat(200, 1), Rat(400, 1)},
     avg_hold_bars : {None, Rat(2, 1), Rat(5, 1)},
     data_dt_min_utc : {None, Rat(GateDay0, 1)},
     data_dt_max_utc : {None, Rat(GateDay0, 1), Rat(AddMonths(GateDay0, 3), 1),
                        Rat(AddMonths(GateDay0, 12), 1)}]

GateConfigs ==
    {GateConfig(d, t, h, m, n) :
        d \in {Rat(DefaultMaxddIntrabarPct, 1), Rat(12, 1)},
        t \in {DefaultMinTradesAnnualized, 50},
        h \in {None, Rat(3, 1)}, m \in {None, Rat(300, 1)}, n \in BOOLEAN}

GateInit ==
    /\ pc = "gate"
    /\ cli = "freezeA"
    /\ dfs = <<{}>>
    /\ split0 = NoSplit
    /\ index_utc = {}
    /\ train_months = 12
    /\ oos_months = 3
    /\ oos_start = NaT
    /\ windows = <<>>
    /\ candidates = <<>>
    /\ min_pos_window_rate = Rat(7, 10)
    /\ k = 0
    /\ summaries = <<>>
    /\ cand_df = <<>>
    /\ handed = {}
    /\ eligible = <<>>
    /\ used_fallback = FALSE
    /\ best_row = NoRow
    /\ test_summary = NoSummary
    /\ summary \in GateSummaries
    /\ cfg \in GateConfigs
    /\ gate = NoGate
    /\ IdleAux

GateNext == Evaluate

GateSpec == GateInit /\ [][GateNext]_vars

(***************************************************************************)
(* Inputs of the walk-forward gate: per-window results of 0..MaxGateWindows *)
(* windows, each passing or failing, with the default config or a given    *)
(* minimum pass rate.                                                      *)
(***************************************************************************)
MaxGateWindows == 10

AggConfigs == {NoAggCfg, [min_pass_rate |-> Rat(7, 10)],
               [min_pass_rate |-> Rat(1, 2)], [min_pass_rate |-> Rat(4, 5)],
               [min_pass_rate |-> Rat(1, 1)]}

\* the state of a pipeline that is not run
IdlePipeline ==
    /\ cli = "freezeA"
    /\ dfs = <<{}>>
    /\ split0 = NoSplit
    /\ index_utc = {}
    /\ train_months = 12
    /\ oos_months = 3
    /\ oos_start = NaT
    /\ windows = <<>>
    /\ candidates = <<>>
    /\ min_pos_window_rate = Rat(7, 10)
    /\ k = 0
    /\ summaries = <<>>
    /\ cand_df = <<>>
    /\ handed = {}
    /\ eligible = <<>>
    /\ used_fallback = FALSE
    /\ best_row = NoRow
    /\ test_summary = NoSummary
    /\ IdleGate

AggInit ==
    /\ pc = "aggregate"
    /\ IdlePipeline
    /\ \E n \in 0..MaxGateWindows : \E oks \in [1..n -> BOOLEAN] :
           per_window = [j \in 1..n |-> [gate_ok |-> oks[j]]]
    /\ agg_cfg \in AggConfigs
    /\ wfa_gate = NoWfaGate
    /\ IdleGrid
    /\ IdleBasin
    /\ IdleScore
    /\ IdleMore

AggNext == AggregateWfa

AggSpec == AggInit /\ [][AggNext]_vars

\* the hard gate and its aggregation over the windows, each on its inputs
VerdictInit == GateInit \/ AggInit

VerdictNext == Evaluate \/ AggregateWfa

VerdictSpec == VerdictInit /\ [][VerdictNext]_vars

(***************************************************************************)
(* Inputs of the grid and of the basin. A space has at most MaxKeys keys   *)
(* with lists of at most MaxVals values (a value may be listed twice).     *)
(***************************************************************************)
MaxKeys == 2
MaxVals == 3

GridKeys == <<"entry_rsi", "stop_pct", "rsi_period">>
GridValues == {PyInt(1), PyFloat(1, 2)}

ValueLists == UNION {[1..n -> GridValues] : n \in 0..MaxVals}

GridInit ==
    /\ pc = "grid"
    /\ IdlePipeline
    /\ IdleAgg
    /\ \E n \in 0..MaxKeys : \E ls \in [1..n -> ValueLists] :
           space = [j \in 1..n |-> [key |-> GridKeys[j], vals |-> ls[j]]]
    /\ grid_out = <<>>
    /\ IdleBasin
    /\ IdleScore
    /\ IdleMore

MaxParams == 2

BasinKeys == {"entry_rsi", "stop_pct", "take_pct", "rsi_period"}

\* values of every type, on both sides of the limits the clamps read
BasinValues ==
    {PyInt(3), PyInt(100), PyFloat(1, 2), PyFloat(0 - 1, 2),
     PyBool(TRUE), PyStr(1)}

\* the default config, one with explicit values for two keys (3 and 3.0
\* are equal values), and one with other steps (a step of 100 %)
BasinConfigs ==
    {DefaultBasinConfig,
     BasinConfig(<<Rat(1, 20), Rat(1, 10), Rat(1, 5)>>, <<1, 2, 4>>,
                 [key \in {"entry_rsi", "stop_pct"} |->
                    IF key = "entry_rsi"
                    THEN <<PyFloat(10, 1), PyInt(3), PyFloat(3, 1)>>
                    ELSE <<PyFloat(0, 1), PyFloat(1, 4)>>]),
     BasinConfig(<<Rat(1, 2), Rat(1, 1)>>, <<0, 3>>, <<>>)}

BasinInit ==
    /\ pc = "basin"
    /\ IdlePipeline
    /\ IdleAgg
    /\ IdleGrid
    /\ \E ks \in SUBSET BasinKeys :
          /\ Cardinality(ks) <= MaxParams
          /\ base \in [ks -> BasinValues]
    /\ basin_cfg \in BasinConfigs
    /\ key_vals = <<>>
    /\ basin_out = <<>>
    /\ IdleScore
    /\ IdleMore

ParamInit == GridInit \/ BasinInit

ParamNext == GridStep \/ BasinStep

ParamSpec == ParamInit /\ [][ParamNext]_vars

(***************************************************************************)
(* Inputs of the scorecard: every argument absent or present, every field  *)
(* absent or with a value below, inside or above the range of its map.     *)
(***************************************************************************)
WfaSummaries ==
    {NoDict(NoWfaSummary)} \cup
    {Dict(f) : f \in [pos_window_rate : {None, Rat(0 - 1, 2), Rat(1, 3), Rat(2, 1)},
                      n_trials : {None, Rat(10, 1)}]} \cup
    {Dict(f) : f \in [pos_window_rate : {None, Rat(1, 3)},
                      n_trials : {Rat(1, 1), Text}]}

GateReports == {NoDict(NoGateReport), Dict([wfa_pass_rate |-> Rat(7, 10)])}

BasinWfaReports ==
    {NoDict(NoBasinWfa), Dict([basin_pass_rate_median |-> Rat(3, 20)])}

BasinReports == {NoDict(NoBasin), Dict([basin_pass_rate |-> Rat(1, 2)])}

ValSummaries ==
    {NoDict(NoSegment)} \cup
    {Dict(f) : f \in [max_drawdown_intrabar_pct : {None, Rat(25, 2), Rat(30, 1)},
                      max_drawdown_close_len : {None, Rat(2750, 1)},
                      profit_factor : {None, Text, Rat(1, 1)},
                      expectancy_pct_of_start : {None, Rat(1, 40)},
                      expectancy : {None, Rat(0 - 1, 1)},
                      sharpe : {None, Rat(1, 3)},
                      net_return_pct : {None, Rat(5, 2)},
                      strategy_params : BOOLEAN]}

TestSummaries ==
    {NoDict(NoSegment),
     Dict([max_drawdown_intrabar_pct |-> Rat(4, 1),
           max_drawdown_close_len |-> Rat(100, 1),
           profit_factor |-> Rat(2, 1),
           expectancy_pct_of_start |-> None,
           expectancy |-> Rat(1, 10),
           sharpe |-> Rat(3, 1),
           net_return_pct |-> Rat(0 - 10, 1),
           strategy_params |-> TRUE])}

ScoreInit ==
    /\ pc = "score"
    /\ IdlePipeline
    /\ IdleAgg
    /\ IdleGrid
    /\ IdleBasin
    /\ score_in \in [wfa_summary : WfaSummaries,
                     wfa_gate_report : GateReports,
                     basin_report : BasinReports,
                     basin_wfa_report : BasinWfaReports,
                     val_summary : ValSummaries,
                     test_summary : TestSummaries]
    /\ scorecard = NoScorecard
    /\ IdleMore

\* direct calls of deflated_sharpe_ratio: a Sharpe, a skew and kurtosis, and
\* two trial counts of at most MaxTrials (or a text)
MaxTrials == 5

DsrSharpes ==
    {None, Text, Rat(0 - 1, 1), Rat(0, 1), Rat(1, 4), Rat(1, 2), Rat(1, 1),
     Rat(3, 1)}

DsrTrials == {Text, Rat(5, 2)} \cup {Rat(n, 1) : n \in (0 - 1)..MaxTrials}

DsrInit ==
    /\ pc = "dsr"
    /\ IdlePipeline
    /\ IdleAgg
    /\ IdleGrid
    /\ IdleBasin
    /\ IdleScore
    /\ dsr_call \in [sharpe : DsrSharpes,
                     n_trials : [1..2 -> DsrTrials],
                     skew : {Rat(0, 1)},
                     kurtosis : {Rat(3, 1), Rat(5, 1)}]
    /\ dsr_ret = <<>>
    /\ IdlePair
    /\ IdleRetune

ScoreNext == ScoreStep \/ ScoreFail \/ DsrCall

ScoreSpec == (ScoreInit \/ DsrInit) /\ [][ScoreNext]_vars

(***************************************************************************)
(* Two calls of scorecard_v1: the first on arguments with low values, the  *)
(* second with one input raised to a value further up its scale, or with   *)
(* another trial count.                                                    *)
(***************************************************************************)
LowSegment ==
    [max_drawdown_intrabar_pct |-> Rat(4, 1),
     max_drawdown_close_len |-> Rat(100, 1),
     profit_factor |-> Rat(1, 2),
     expectancy_pct_of_start |-> Rat(0 - 1, 10),
     expectancy |-> Rat(0 - 1, 1),
     sharpe |-> Rat(0 - 2, 1),
     net_return_pct |-> Rat(0 - 10, 1),
     strategy_params |-> TRUE]

\* the summary with every metric, and with one metric left out
LowSummaries ==
    {NoDict(NoSegment), Dict(LowSegment)} \cup
    {Dict([LowSegment EXCEPT ![name] = None]) : name \in SegmentMetrics}

PairWfaSummaries ==
    {NoDict(NoWfaSummary)} \cup
    {Dict(f) : f \in [pos_window_rate : {None, Rat(0 - 1, 2), Rat(1, 3)},
                      n_trials : {None, Rat(10, 1)}]}

\* the values an input is raised to
HigherValues(name) ==
    CASE name \in {"pos_window_rate", "wfa_pass_rate"} ->
             {Rat(1, 3), Rat(7, 10), Rat(2, 1)}
      [] name \in {"basin_pass_rate_median", "basin_pass_rate"} ->
             {Rat(1, 5), Rat(1, 2)}
      [] name = "max_drawdown_intrabar_pct" -> {Rat(25, 2), Rat(30, 1)}
      [] name = "max_drawdown_close_len" -> {Rat(2750, 1), Rat(6000, 1)}
      [] name = "profit_factor" -> {Rat(1, 1), Rat(2, 1)}
      [] name = "expectancy_pct_of_start" -> {Rat(1, 40), Rat(1, 1)}
      [] name = "expectancy" -> {Rat(1, 100), Rat(1, 10)}
      [] name = "sharpe" -> {Rat(1, 3), Rat(3, 1)}
      [] name = "net_return_pct" -> {Rat(5, 2), Rat(10, 1)}

PairTrials == {None, Rat(1, 1), Rat(3, 1), Rat(10, 1), Text}

\* the input is there and v is above its value
Raises(in, fld, v) ==
    /\ in[fld[1]].present
    /\ in[fld[1]].f[fld[2]].den > 0
    /\ RatLt(in[fld[1]].f[fld[2]], v)

PairInit ==
    /\ pc = "score"
    /\ IdlePipeline
    /\ IdleAgg
    /\ IdleGrid
    /\ IdleBasin
    /\ score_in \in [wfa_summary : PairWfaSummaries,
                     wfa_gate_report : GateReports,
                     basin_report : BasinReports,
                     basin_wfa_report : BasinWfaReports,
                     val_summary : LowSummaries,
                     test_summary : TestSummaries]
    /\ scorecard = NoScorecard
    /\ IdleMore

RaiseInput ==
    \E fld \in MetricFields : \E v \in HigherValues(fld[2]) :
        /\ Raises(score_in, fld, v)
        /\ ScoreAgain(WithField(score_in, fld, v), fld)

ChangeTrials ==
    \E n \in PairTrials : ScoreAgain(WithTrials(score_in, n), TrialsField)

ChangeTrialsFail ==
    \E n \in PairTrials : ScoreAgainFail(WithTrials(score_in, n), TrialsField)

PairNext == ScoreStep \/ RaiseInput \/ ChangeTrials \/ ChangeTrialsFail

PairSpec == PairInit /\ [][PairNext]_vars

(***************************************************************************)
(* The retune runs: the same split and windows, then the choice of a       *)
(* candidate per window on train summaries of the evaluator.               *)
(***************************************************************************)
\* a series whose pre period holds two windows of one month each
RetuneSeries ==
    FreezeSeries \cup
    { {Ts(2023, 1, 1, 0), Ts(2023, 4, 15, 0), Ts(2024, 4, 20, 0)} }

RetuneInit ==
    /\ pc = "split"
    /\ cli \in RetuneClis
    /\ \E S \in RetuneSeries : dfs = <<S>>
    /\ split0 = NoSplit
    /\ index_utc = {}
    /\ train_months = 1
    /\ oos_months = 1
    /\ oos_start = NaT
    /\ windows = <<>>
    /\ \E nc \in 1..MaxCand : candidates = [c \in 1..nc |-> c]
    /\ min_pos_window_rate = Rat(7, 10)
    /\ IdleRun

RetuneNext ==
    \/ SplitOk
    \/ SplitFail
    \/ BuildPre
    \/ WfaStart
    \/ WfaAppend
    \/ WfaBreak
    \/ NoWindows
    \/ RetuneStart
    \/ TrainCandidate
    \/ RetuneFallback
    \/ RetuneChosen
    \/ RetuneOos
    \/ RetuneNextWindow

RetuneSpec == RetuneInit /\ [][RetuneNext]_vars

(***************************************************************************)
(* The pipelines from the split to their reports: the freeze runs with     *)
(* their scorecard, and the retune runs.                                   *)
(***************************************************************************)
PipelineInit == FreezeInit \/ RetuneInit

PipelineNext ==
    \/ SplitOk
    \/ SplitFail
    \/ BuildPre
    \/ WfaStart
    \/ WfaAppend
    \/ WfaBreak
    \/ NoWindows
    \/ StartCandidates
    \/ EvalWindow
    \/ AggregateCandidate
    \/ CandidatesDone
    \/ SelectFrozen
    \/ RunTest
    \/ FreezeScorecard
    \/ RetuneStart
    \/ TrainCandidate
    \/ RetuneFallback
    \/ RetuneChosen
    \/ RetuneOos
    \/ RetuneNextWindow

PipelineSpec == PipelineInit /\ [][PipelineNext]_vars

====
